---- MODULE Spec2Model ----
(***************************************************************************)
(* Model of the chat-driven command resolution and confirmation engine of  *)
(* gui-gui: the server of src/api/index.js (the /chat and /delete          *)
(* handlers, executeTool and the tool registry), the browser client of     *)
(* src/script.js (handleChatSubmit, handleChatResponse) and the remote     *)
(* hosting service they talk to.                                           *)
(*                                                                         *)
(* Strings of the program are TLA+ strings drawn from finite alphabets;    *)
(* the string functions of the code (trim, toLowerCase, includes('/'),     *)
(* template concatenation, split) are tables over those alphabets.         *)
(***************************************************************************)
EXTENDS Integers, Sequences, FiniteSets, TLC

VARIABLES
    repos,                \* hosting service: the repositories that exist
    files,                \* hosting service: [repository -> [path -> content or NoFile]]
    refs,                 \* hosting service: [repository -> its branches and pull requests]
    currentRepo,          \* script.js: let currentRepo
    currentFile,          \* script.js: let currentFile (the file open in the editor)
    chatHistory,          \* script.js: let chatHistory (the roles of its entries)
    pendingDeletion,      \* script.js: let pendingDeletion (the Confirmation Token)
    pendingDeletionType,  \* script.js: let pendingDeletionType
    env,                  \* index.js: githubToken and geminiApiKey of process.env
    net,                  \* the exchange in progress: Idle, a request, a finished turn
    pending,              \* the page's exchanges in transit and its timers not yet due
    machine               \* history: the Confirmation State Machine's state and token

vars == <<repos, files, refs, currentRepo, currentFile, chatHistory,
          pendingDeletion, pendingDeletionType, env, net, pending, machine>>

-----------------------------------------------------------------------------
(* Values *)

Null == "null"            \* JavaScript null / undefined
NoFile == "nofile"        \* the hosting service has no file at the path

githubUsername == "bot"

BareNames == {"a", "b"}
RepoIds   == {"bot/a", "bot/b"}
Paths     == {"README.md", "a:b.txt", "x:::y", "x"}
Contents  == {"c0", "c1"}
OtherContent == "c0"      \* what another writer of the hosting service commits
LoneSurrogate == "c<D800>"   \* the string 'c\uD800': c, then an unpaired surrogate
Replaced == "c<FFFD>"        \* the string 'c\uFFFD'

\* Buffer.from(content).toString('base64'): the UTF-8 bytes of the string,
\* an unpaired surrogate encoded as U+FFFD (EF BF BD), then base64
ToBase64(content) ==
    CASE content = "c0" -> "YzA="
      [] content = "c1" -> "YzE="
      [] content = "c2" -> "YzI="
      [] content = LoneSurrogate -> "Y++/vQ=="
      [] content = Replaced -> "Y++/vQ=="
      [] OTHER -> "Pw=="

\* Buffer.from(data.content, 'base64').toString('utf-8')
FromBase64(data) ==
    CASE data = "YzA=" -> "c0"
      [] data = "YzE=" -> "c1"
      [] data = "YzI=" -> "c2"
      [] data = "Y++/vQ==" -> Replaced
      [] OTHER -> "?"

\* String.prototype.isWellFormed: no unpaired surrogate
IsWellFormed(content) == content # LoneSurrogate

InitReadme == "YzA="      \* the README the service writes on auto_init, in base64

\* `${githubUsername}/${name}`
Qualify(n) ==
    CASE n = "a" -> "bot/a"
      [] n = "b" -> "bot/b"
      [] n = "bot/a" -> "bot/bot/a"
      [] n = "bot/b" -> "bot/bot/b"
      [] OTHER -> "bot/?"

\* name.includes('/')
IncludesSlash(n) == n \in {"bot/a", "bot/b", "bot/bot/a", "bot/bot/b", "bot/?"}

\* what the user can type into the chat input
ForceMsg == "FORCE_DELETE_FILE:bot/a:README.md"
UserMessages == {"yes", "YES", " yes ", "no", "   ", "hello", ForceMsg}

\* String.prototype.trim
Trim(m) ==
    CASE m = " yes " -> "yes"
      [] m = "   " -> ""
      [] m = " b " -> "b"
      [] OTHER -> m

\* String.prototype.toLowerCase
ToLowerCase(m) ==
    CASE m = "YES" -> "yes"
      [] m = "Yes" -> "yes"
      [] OTHER -> m

\* message.startsWith('FORCE_DELETE_FILE:')
StartsWithForce(m) ==
    m \in {ForceMsg, "FORCE_DELETE_FILE:bot/a:a:b.txt", "FORCE_DELETE_FILE:bot/a:x",
           "FORCE_DELETE_FILE:bot/a:x:::y"}

\* message.replace('FORCE_DELETE_FILE:', '').split(':'), then
\* repo = parts[0] and path = parts.slice(1).join(':')
ForceParts(m) ==
    CASE m = ForceMsg -> <<"bot/a", "README.md">>
      [] m = "FORCE_DELETE_FILE:bot/a:a:b.txt" -> <<"bot/a", "a:b.txt">>
      [] m = "FORCE_DELETE_FILE:bot/a:x" -> <<"bot/a", "x">>
      [] m = "FORCE_DELETE_FILE:bot/a:x:::y" -> <<"bot/a", "x:::y">>
      [] OTHER -> <<m, "">>

-----------------------------------------------------------------------------
(* Tool registry *)

ToolNames == {"list_tools", "list_repos", "create_repo", "delete_repo",
              "list_files", "read_file", "update_file", "create_pr",
              "list_prs", "merge_pr", "delete_file"}

\* the `required` list of each Tool Descriptor
Required(t) ==
    CASE t = "create_repo" -> {"name"}
      [] t = "delete_repo" -> {"repo"}
      [] t = "list_files"  -> {"repo"}
      [] t = "read_file"   -> {"repo", "path"}
      [] t = "update_file" -> {"repo", "path", "content", "message"}
      [] t = "create_pr"   -> {"repo", "title", "filePath", "content"}
      [] t = "list_prs"    -> {"repo"}
      [] t = "merge_pr"    -> {"repo", "prNumber"}
      [] t = "delete_file" -> {"repo", "path"}
      [] OTHER -> {}

\* the arguments of an invocation: a field that is absent holds Null
ArgFields == {"name", "repo", "path", "content", "message", "filePath", "title",
              "prNumber"}
NoArgs == [f \in ArgFields |-> Null]
Args(name, repo, path, content, message) ==
    [NoArgs EXCEPT !.name = name, !.repo = repo, !.path = path,
                   !.content = content, !.message = message]
\* the arguments of create_pr and of merge_pr
PrArgs(repo, filePath, content, title) ==
    [NoArgs EXCEPT !.repo = repo, !.filePath = filePath, !.content = content,
                   !.title = title]
MergeArgs(repo, prNumber) == [NoArgs EXCEPT !.repo = repo, !.prNumber = prNumber]

MissingRequired(t, args) ==
    {f \in Required(t) \cap ArgFields : args[f] = Null}

-----------------------------------------------------------------------------
(* The remote hosting service, as githubFetch sees it *)

\* the state of the hosting service, passed through the requests of one turn;
\* a file is held as the contents API returns it, base64 in data.content
\* refs: per repository, the number of branches made by create_pr and the
\* pull requests in the order of their numbers
Remote(rs, fs, gs) == [repos |-> rs, files |-> fs, refs |-> gs]

\* a pull request: the file and the content committed on its branch
Pull(path, content, state) == [path |-> path, content |-> content, state |-> state]
NoRefs == [branches |-> 0, pulls |-> <<>>]

NoFiles == [p \in Paths |-> NoFile]

\* the content at a path, NoFile when the repository or the path does not exist
FileAt(R, repo, path) ==
    IF repo \in R.repos /\ path \in Paths THEN R.files[repo][path] ELSE NoFile

\* one request sent to the hosting service and whether it was answered 2xx;
\* sha: the hash a contents read returned, or the hash a write or a delete
\* carried in its body, Null when there is none
Http(m, u, repo, path, ok) ==
    [m |-> m, u |-> u, repo |-> repo, path |-> path, ok |-> ok, sha |-> Null]
WithSha(rq, sha) == [rq EXCEPT !.sha = sha]

\* githubFetch(`/repos/${repo}/contents/${path}`): the read that yields the
\* sha of the file (cur), when it is answered
GetContents(repo, path, ok, cur) ==
    WithSha(Http("GET", "contents", repo, path, ok), IF ok THEN cur ELSE Null)

\* what happens to the requests of one turn: the hosting service answers the
\* failAt-th request with a non-2xx status of its own (rate limit, outage);
\* edit is the content another writer commits between the read and the write
\* of an update_file (Null: nobody does); auth is false when githubFetch sends
\* `token undefined`, which the service answers with 401 every time
Svc(failAt, edit, auth) == [failAt |-> failAt, edit |-> edit, auth |-> auth]

\* the n-th request of the turn is answered with a non-2xx status
Forced(n, svc) == ~svc.auth \/ n = svc.failAt

\* r.name of a repository the service lists: the part after the owner
BareName(full) ==
    CASE full = "bot/a" -> "a"
      [] full = "bot/b" -> "b"
      [] OTHER -> full

\* GET /user/repos?type=owner&per_page=100&sort=updated: the repositories as
\* the service orders them, the one touched last first (bot/b, which does not
\* exist at the start, ahead of bot/a)
ServiceOrder(rs) ==
    CASE rs = {} -> <<>>
      [] rs = {"bot/a"} -> <<"bot/a">>
      [] rs = {"bot/b"} -> <<"bot/b">>
      [] OTHER -> <<"bot/b", "bot/a">>

\* repos.map(r => ({ name: r.name, ... }))
MapNames(seq) == [i \in 1..Len(seq) |-> BareName(seq[i])]

\* Operation Result shapes of executeTool
Err(text)       == [tag |-> "error",   text |-> text, repos |-> <<>>, content |-> Null]
Success(text)   == [tag |-> "success", text |-> text, repos |-> <<>>, content |-> Null]
ReposResult(rs) == [tag |-> "repos",   text |-> "",   repos |-> rs, content |-> Null]
ToolsResult     == [tag |-> "tools",   text |-> "",   repos |-> <<>>, content |-> Null]
FilesResult     == [tag |-> "files",   text |-> "",   repos |-> <<>>, content |-> Null]
ContentResult(c) == [tag |-> "content", text |-> "",  repos |-> <<>>, content |-> c]
PrsResult       == [tag |-> "prs",     text |-> "",   repos |-> <<>>, content |-> Null]

IsFailure(result) == result.tag = "error"

Done(result, http, R) == [result |-> result, http |-> http, R |-> R]

\* case 'list_repos'
ListRepos(args, R, k, svc) ==
    LET ok == ~Forced(k + 1, svc)
        rq == Http("GET", "user/repos", Null, Null, ok)
    IN  IF ~ok THEN Done(Err("Failed to list repos"), <<rq>>, R)
        ELSE Done(ReposResult(MapNames(ServiceOrder(R.repos))), <<rq>>, R)

\* case 'create_repo'; auto_init is on unless args.autoInit is false
CreateRepo(args, R, k, svc) ==
    LET full == Qualify(args.name)
        ok == /\ ~Forced(k + 1, svc)
              /\ args.name \in BareNames
              /\ full \notin R.repos
        rq == Http("POST", "user/repos", args.name, Null, ok)
    IN  IF ~ok THEN Done(Err("Failed to create repo"), <<rq>>, R)
        ELSE Done(Success("Repository created successfully"), <<rq>>,
                  Remote(R.repos \cup {full},
                         [R.files EXCEPT ![full] =
                             [p \in Paths |-> IF p = "README.md" THEN InitReadme
                                              ELSE NoFile]],
                         [R.refs EXCEPT ![full] = NoRefs]))

\* case 'delete_repo'
DeleteRepo(args, R, k, svc) ==
    LET ok == ~Forced(k + 1, svc) /\ args.repo \in R.repos
        rq == Http("DELETE", "repo", args.repo, Null, ok)
    IN  IF ~ok THEN Done(Err("Failed to delete repo"), <<rq>>, R)
        ELSE Done(Success("Repository deleted successfully"), <<rq>>,
                  Remote(R.repos \ {args.repo},
                         [R.files EXCEPT ![args.repo] = NoFiles],
                         [R.refs EXCEPT ![args.repo] = NoRefs]))

\* case 'list_files', for the root path
ListFiles(args, R, k, svc) ==
    LET ok == /\ ~Forced(k + 1, svc)
              /\ args.repo \in R.repos
              /\ \E p \in Paths : R.files[args.repo][p] # NoFile
        rq == Http("GET", "contents", args.repo, Null, ok)
    IN  IF ~ok THEN Done(Err("Failed to list files"), <<rq>>, R)
        ELSE Done(FilesResult, <<rq>>, R)

\* read_file that hands back data.content as the service sent it
ReadFile_NotDecoded(args, R, k, svc) ==
    LET cur == FileAt(R, args.repo, args.path)
        ok == ~Forced(k + 1, svc) /\ cur # NoFile
        rq == Http("GET", "contents", args.repo, args.path, ok)
    IN  IF ~ok THEN Done(Err("Failed to read file"), <<rq>>, R)
        ELSE Done(ContentResult(cur), <<rq>>, R)

\* case 'read_file'
ReadFile(args, R, k, svc) ==
    LET cur == FileAt(R, args.repo, args.path)
        ok == ~Forced(k + 1, svc) /\ cur # NoFile
        rq == Http("GET", "contents", args.repo, args.path, ok)
    IN  IF ~ok THEN Done(Err("Failed to read file"), <<rq>>, R)
        ELSE Done(ContentResult(FromBase64(cur)), <<rq>>, R)

\* update_file that writes without the sha it read, so that the service has
\* nothing to compare and takes the write
UpdateFile_NoShaSent(args, R, k, svc) ==
    LET get == GetContents(args.repo, args.path,
                           ~Forced(k + 1, svc) /\ FileAt(R, args.repo, args.path) # NoFile,
                           FileAt(R, args.repo, args.path))
        other == Http("PUT", "contents, by another writer", args.repo, args.path, TRUE)
        put == Http("PUT", "contents", args.repo, args.path, TRUE)
    IN  IF args.content = Null \/ args.repo \notin R.repos \/ args.path \notin Paths
        THEN Done(Err("Failed to update file"), <<get>>, R)
        ELSE Done(Success("File updated successfully"),
                  IF svc.edit # Null THEN <<get, other, put>> ELSE <<get, put>>,
                  Remote(R.repos,
                         [R.files EXCEPT ![args.repo][args.path] =
                             ToBase64(args.content)],
                         R.refs))

\* the commit of another writer of the hosting service, as a request
OtherWrite(repo, path, ok) == Http("PUT", "contents, by another writer", repo, path, ok)

\* case 'update_file': read the current sha, then write with it.  The sha of
\* a file is its content.  Buffer.from(undefined) throws, which executeTool's
\* catch turns into an error result after the read was sent.  With svc.edit,
\* another writer's commit reaches the service between the read and the
\* write, as request k + 2 of the turn.
UpdateFile(args, R, k, svc) ==
    LET cur == FileAt(R, args.repo, args.path)
        getOk == ~Forced(k + 1, svc) /\ cur # NoFile
        get == GetContents(args.repo, args.path, getOk, cur)
        currentSha == IF getOk THEN cur ELSE Null
        raced == svc.edit # Null
        editOk == /\ raced
                  /\ svc.failAt # k + 2
                  /\ args.repo \in R.repos
                  /\ args.path \in Paths
        R1 == IF editOk
              THEN Remote(R.repos,
                          [R.files EXCEPT ![args.repo][args.path] = ToBase64(svc.edit)],
                          R.refs)
              ELSE R
        now == FileAt(R1, args.repo, args.path)
        n == IF raced THEN k + 3 ELSE k + 2
        putOk == /\ ~Forced(n, svc)
                 /\ args.repo \in R.repos
                 /\ args.path \in Paths
                 /\ args.message # Null
                 /\ IF now = NoFile THEN currentSha = Null ELSE currentSha = now
        put == WithSha(Http("PUT", "contents", args.repo, args.path, putOk), currentSha)
        sent == IF raced THEN <<get, OtherWrite(args.repo, args.path, editOk), put>>
                ELSE <<get, put>>
    IN  IF args.content = Null
        THEN Done(Err("The first argument must be of type string"), <<get>>, R)
        ELSE IF ~putOk THEN Done(Err("Failed to update file"), sent, R1)
        ELSE Done(Success("File updated successfully"), sent,
                  Remote(R.repos,
                         [R.files EXCEPT ![args.repo][args.path] =
                             ToBase64(args.content)],
                         R.refs))

\* case 'delete_file': read the sha, then delete with it
DeleteFile(args, R, k, svc) ==
    LET cur == FileAt(R, args.repo, args.path)
        getOk == ~Forced(k + 1, svc) /\ cur # NoFile
        get == GetContents(args.repo, args.path, getOk, cur)
        delOk == ~Forced(k + 2, svc) /\ cur # NoFile
        del == WithSha(Http("DELETE", "contents", args.repo, args.path, delOk), cur)
    IN  IF ~getOk THEN Done(Err("Failed to get file info"), <<get>>, R)
        ELSE IF ~delOk THEN Done(Err("Failed to delete file"), <<get, del>>, R)
        ELSE Done(Success("File deleted successfully"), <<get, del>>,
                  Remote(R.repos,
                         [R.files EXCEPT ![args.repo][args.path] = NoFile],
                         R.refs))

\* the repository with one more branch `ai-agent-${Date.now()}`
Branched(R, repo) ==
    Remote(R.repos, R.files, [R.refs EXCEPT ![repo].branches = @ + 1])

\* the repository with one more open pull request
Pulled(R, repo, path, content) ==
    Remote(R.repos, R.files,
           [R.refs EXCEPT ![repo].pulls = Append(@, Pull(path, content, "open"))])

\* create_pr from "Get current file" on: sent holds the requests sent so far
CreatePrFile(args, R, k, svc, sent) ==
    LET cur == FileAt(R, args.repo, args.filePath)
        getOk == ~Forced(k + 3, svc) /\ cur # NoFile
        get == GetContents(args.repo, args.filePath, getOk, cur)
        putOk == ~Forced(k + 4, svc)
        put == WithSha(Http("PUT", "contents, on the branch", args.repo,
                            args.filePath, putOk), cur)
        prOk == ~Forced(k + 5, svc) /\ args.title # Null
        pr == Http("POST", "pulls", args.repo, Null, prOk)
    IN  IF ~getOk THEN Done(Err("Failed to get file"), sent \o <<get>>, R)
        ELSE IF args.content = Null
        THEN Done(Err("The first argument must be of type string"), sent \o <<get>>, R)
        ELSE IF ~putOk
        THEN Done(Err("Failed to update file on branch"), sent \o <<get, put>>, R)
        ELSE IF ~prOk
        THEN Done(Err("Failed to create PR"), sent \o <<get, put, pr>>, R)
        ELSE Done(Success("PR created"), sent \o <<get, put, pr>>,
                  Pulled(R, args.repo, args.filePath, args.content))

\* create_pr that goes on to the file when the branch could not be created
CreatePr_IgnoresBranchFailure(args, R, k, svc) ==
    LET refOk == ~Forced(k + 1, svc) /\ args.repo \in R.repos
        ref == Http("GET", "git/ref/heads/main", args.repo, Null, refOk)
        branchOk == ~Forced(k + 2, svc)
        branch == Http("POST", "git/refs", args.repo, Null, branchOk)
    IN  IF ~refOk THEN Done(Err("Failed to get main branch"), <<ref>>, R)
        ELSE CreatePrFile(args, IF branchOk THEN Branched(R, args.repo) ELSE R,
                          k, svc, <<ref, branch>>)

\* case 'create_pr': the sha of main, a new branch, the file's sha, the file
\* written on the branch, the pull request; each step returns its error when
\* it is not answered 2xx.  Buffer.from(undefined) throws after the file was
\* read, and the service refuses a pull request without title.
CreatePr(args, R, k, svc) ==
    LET refOk == ~Forced(k + 1, svc) /\ args.repo \in R.repos
        ref == Http("GET", "git/ref/heads/main", args.repo, Null, refOk)
        branchOk == ~Forced(k + 2, svc)
        branch == Http("POST", "git/refs", args.repo, Null, branchOk)
    IN  IF ~refOk THEN Done(Err("Failed to get main branch"), <<ref>>, R)
        ELSE IF ~branchOk THEN Done(Err("Failed to create branch"), <<ref, branch>>, R)
        ELSE CreatePrFile(args, Branched(R, args.repo), k, svc, <<ref, branch>>)

\* case 'list_prs'
ListPrs(args, R, k, svc) ==
    LET ok == ~Forced(k + 1, svc) /\ args.repo \in R.repos
        rq == Http("GET", "pulls", args.repo, Null, ok)
    IN  IF ~ok THEN Done(Err("Failed to list PRs"), <<rq>>, R)
        ELSE Done(PrsResult, <<rq>>, R)

\* the pull request `/pulls/${args.prNumber}/merge` names, 0 when none
PullNumber(prNumber) ==
    CASE prNumber = "1" -> 1
      [] prNumber = "2" -> 2
      [] prNumber = "3" -> 3
      [] OTHER -> 0

\* the merge of an open pull request into main
Merged(R, repo, n) ==
    Remote(R.repos,
           [R.files EXCEPT ![repo][R.refs[repo].pulls[n].path] =
               ToBase64(R.refs[repo].pulls[n].content)],
           [R.refs EXCEPT ![repo].pulls[n].state = "merged"])

\* case 'merge_pr': the service merges an open pull request into main
MergePr(args, R, k, svc) ==
    LET ok == /\ ~Forced(k + 1, svc)
              /\ args.repo \in R.repos
              /\ PullNumber(args.prNumber) \in DOMAIN R.refs[args.repo].pulls
              /\ R.refs[args.repo].pulls[PullNumber(args.prNumber)].state = "open"
        rq == Http("PUT", "pulls/merge", args.repo, Null, ok)
    IN  IF ~ok THEN Done(Err("Failed to merge PR"), <<rq>>, R)
        ELSE Done(Success("PR merged successfully"), <<rq>>,
                  Merged(R, args.repo, PullNumber(args.prNumber)))

\* the operations of executeTool
GatewayTools == {"list_tools", "list_repos", "create_repo", "delete_repo",
                 "list_files", "read_file", "update_file", "create_pr",
                 "list_prs", "merge_pr", "delete_file"}

\* async function executeTool(toolName, args); k requests were sent before it
executeTool(toolName, args, R, k, svc) ==
    CASE toolName = "list_tools"  -> Done(ToolsResult, <<>>, R)
      [] toolName = "list_repos"  -> ListRepos(args, R, k, svc)
      [] toolName = "create_repo" -> CreateRepo(args, R, k, svc)
      [] toolName = "delete_repo" -> DeleteRepo(args, R, k, svc)
      [] toolName = "list_files"  -> ListFiles(args, R, k, svc)
      [] toolName = "read_file"   -> ReadFile(args, R, k, svc)
      [] toolName = "update_file" -> UpdateFile(args, R, k, svc)
      [] toolName = "create_pr"   -> CreatePr(args, R, k, svc)
      [] toolName = "list_prs"    -> ListPrs(args, R, k, svc)
      [] toolName = "merge_pr"    -> MergePr(args, R, k, svc)
      [] toolName = "delete_file" -> DeleteFile(args, R, k, svc)
      [] OTHER -> Done(Err("Unknown tool"), <<>>, R)

-----------------------------------------------------------------------------
(* What the generative-AI service may answer *)

MaxCalls == 2     \* most calls in one AI reply
MaxFail  == 2     \* the hosting service may fail request 1..MaxFail of a turn

Call(name, args) == [name |-> name, args |-> args]

\* single invocations the model may emit: complete ones, and ones that lack
\* an argument the Tool Descriptor requires
AiCalls ==
    {Call("list_tools", NoArgs), Call("list_repos", NoArgs)}
    \cup {Call("create_repo", Args(n, Null, Null, Null, Null)) : n \in {"a", Null}}
    \cup {Call("delete_repo", Args(Null, r, Null, Null, Null)) : r \in RepoIds \cup {Null}}
    \cup {Call("list_files", Args(Null, r, Null, Null, Null)) : r \in {"bot/a", Null}}
    \cup {Call("read_file", Args(Null, "bot/a", p, Null, Null)) : p \in {"README.md", Null}}
    \cup {Call("update_file", Args(Null, r, "README.md", c, "msg")) :
             r \in {"bot/a", Null}, c \in {"c1", Null}}
    \cup {Call("delete_file", Args(Null, r, p, Null, Null)) :
             r \in {"bot/a", Null}, p \in {"README.md", Null}}

\* update_file(repo, path, content) followed by read_file(repo, path)
WriteThenRead ==
    {<<Call("update_file", Args(Null, "bot/a", "README.md", c, "msg")),
       Call("read_file", Args(Null, "bot/a", "README.md", Null, Null))>> :
        c \in {"c1", LoneSurrogate}}

\* the calls that occur in replies holding several calls
CoreCalls ==
    {Call("list_repos", NoArgs),
     Call("delete_repo", Args(Null, "bot/a", Null, Null, Null)),
     Call("create_repo", Args("a", Null, Null, Null, Null))}

\* entries of an embedded JSON tool_calls array; "frobnicate" is no tool
JsonCalls ==
    {Call("delete_repo", Args(Null, "bot/a", Null, Null, Null)),
     Call("list_repos", NoArgs),
     Call("create_repo", NoArgs),
     Call("frobnicate", NoArgs)}

SeqsUpTo(S, lo, hi) == UNION {[1..n -> S] : n \in lo..hi}

IntentData(intent, repo_name, file_name, file_content) ==
    [intent |-> intent, repo_name |-> repo_name, file_name |-> file_name,
     file_content |-> file_content]

\* let intentData = { intent: 'none', repo_name: null, ... }
DefaultIntent == IntentData("none", Null, Null, Null)
\* the objects the classifier's reply may describe
IntentReplies ==
    {IntentData("create_repo", n, Null, Null) : n \in {"a", Null}}
    \cup {IntentData("delete_repo", n, Null, Null) : n \in {"a", "bot/b", Null}}
    \cup {IntentData(i, Null, Null, Null) : i \in {"list_repos", "list_tools", "none"}}
    \cup {IntentData(i, n, f, c) : i \in {"create_file", "update_file"},
             n \in {"a", Null}, f \in {"README.md", Null}, c \in {"c1", Null}}
    \cup {IntentData("delete_file", n, f, Null) :
             n \in {"a", Null}, f \in {"README.md", Null}}

\* an object without any of the four properties, as JSON.parse('{}') gives
NoIntent == IntentData(Null, Null, Null, Null)

\* The text of the classifier's reply.  form "object": the JSON text of
\* object; "fenced": the same between ```json fences; "empty": no text;
\* "prose": text that is not JSON; "literal": the JSON literal null
Classified(form, object) == [form |-> form, object |-> object]
NoReply == Classified(Null, NoIntent)
ClassifierReplies ==
    {Classified("object", i) : i \in IntentReplies}
    \cup {Classified("fenced", IntentData("list_repos", Null, Null, Null))}
    \cup {Classified(f, NoIntent) : f \in {"empty", "prose", "literal"}}

\* intentText = intentResponse.text?.trim() || '{}', the fences removed, then
\* intentData = JSON.parse(cleanedIntent) inside try/catch: what intentData
\* holds afterwards (for the literal null, see IntentIsNull)
ParseIntent(reply) ==
    CASE reply.form \in {"object", "fenced"} -> reply.object
      [] reply.form = "empty" -> NoIntent
      [] OTHER -> DefaultIntent

\* JSON.parse('null') returns null without throwing, and intentData is null
IntentIsNull(reply) == reply.form = "literal"

\* One reply of the first AI call, with the replies of the later AI calls of
\* the same turn (follow: the follow-up text, "" when the model returns none;
\* intent: the classifier's reply; coding: the generated file content)
AiReply(shape, calls, follow, intent) ==
    [shape |-> shape, calls |-> calls, text |-> "ai_text", follow |-> follow,
     intent |-> intent, coding |-> "c1"]

AiReplies ==
    \* response.functionCalls
    {AiReply("functionCalls", <<c>>, f, NoReply) :
        c \in AiCalls, f \in {"ai_followup", ""}}
    \cup {AiReply("functionCalls", cs, "ai_followup", NoReply) :
        cs \in SeqsUpTo(CoreCalls, 2, MaxCalls)}
    \cup {AiReply("functionCalls", cs, "ai_followup", NoReply) : cs \in WriteThenRead}
    \* response.candidates[0].content.parts holding functionCall parts
    \cup {AiReply("parts", cs, "ai_followup", NoReply) :
        cs \in SeqsUpTo(CoreCalls, 1, MaxCalls)}
    \* text that is JSON with a tool_calls / toolCalls array
    \cup {AiReply("json", cs, "", NoReply) : cs \in SeqsUpTo(JsonCalls, 0, MaxCalls)}
    \* text holding name(key='value', ...)
    \cup {AiReply("inline", <<c>>, "", NoReply) :
        c \in {Call("delete_repo", Args(Null, "bot/a", Null, Null, Null)),
               Call("list_repos", NoArgs)}}
    \* plain text, then the classifier's reply
    \cup {AiReply("text", <<>>, "", i) : i \in ClassifierReplies}
    \* response.text is empty and the classifier's reply does not parse
    \cup {[AiReply("text", <<>>, "", Classified("prose", NoIntent)) EXCEPT !.text = ""]}

-----------------------------------------------------------------------------
(* Requests, responses and the trace of one server turn *)

\* a request on its way to the server.  src: "form" (the chat form of the
\* page), "confirm" (the fetch of handleChatSubmit after "yes"), "api" (any
\* other caller of the HTTP interface)
\* the file open in the editor, as the page puts it in the context
OpenFile(repo, path, content) == [repo |-> repo, path |-> path, content |-> content]
NoOpenFile == OpenFile(Null, Null, Null)

\* the context of a /chat request.  form "string": the JSON text of
\* { currentRepo, currentFile }, as the chat form sends it; "object": the same
\* as an object of a JSON body; "absent": the request has no context
Ctx(form, repo, file) ==
    [form |-> form, currentRepo |-> repo, currentFile |-> file]
NoContext == Ctx("absent", Null, NoOpenFile)

\* a request to the server; a parameter that is absent holds Null
ChatReq(src, message, context, pendingAction) ==
    [ep |-> "chat", src |-> src, message |-> message, context |-> context,
     pendingAction |-> pendingAction, repo |-> Null, path |-> Null,
     content |-> Null]
DeleteReq(src, repo) ==
    [ChatReq(src, Null, NoContext, Null) EXCEPT !.ep = "delete", !.repo = repo]
\* GET /files?repo=..&path=..
FilesReq(src, repo, path) ==
    [ChatReq(src, Null, NoContext, Null) EXCEPT !.ep = "files", !.repo = repo,
                                                !.path = path]
\* GET /file?repo=..&path=..
FileReq(src, repo, path) ==
    [ChatReq(src, Null, NoContext, Null) EXCEPT !.ep = "file", !.repo = repo,
                                                !.path = path]
\* POST /commit { repo, content, filePath, message }
CommitReq(src, repo, filePath, content, message) ==
    [ChatReq(src, message, NoContext, Null) EXCEPT !.ep = "commit", !.repo = repo,
                                                   !.path = filePath,
                                                   !.content = content]

\* the body of res.json(...); a field that is absent holds Null
EmptyResp ==
    [error |-> Null, response |-> Null, success |-> Null, toolCalls |-> <<>>,
     pendingDeletion |-> Null, deletionType |-> Null, awaitingInput |-> Null,
     content |-> Null, sha |-> Null]
RespText(text) == [EmptyResp EXCEPT !.response = text]
RespError(text) == [EmptyResp EXCEPT !.error = text]
RespProposal(text, token) ==
    [EmptyResp EXCEPT !.response = text, !.pendingDeletion = token]
RespAwait(text, what) ==
    [EmptyResp EXCEPT !.response = text, !.awaitingInput = what]
\* toolCalls: toolCalls.length > 0 ? toolCalls : undefined
RespFinal(text, toolCalls) ==
    [EmptyResp EXCEPT !.response = text, !.toolCalls = toolCalls]

\* an Execution Record
Record(name, args, result) == [name |-> name, args |-> args, result |-> result]

NoInv == Call(Null, NoArgs)

\* a finished turn: the request, the stage that ended it, the AI calls made,
\* the operations executeTool ran (ops), the requests sent to the hosting
\* service (http), the invocation intent resolution arrived at (inv), the
\* response, and the hosting service's state after the turn
Turn(stage, ai, ops, http, inv, resp, R) ==
    [stage |-> stage, ai |-> ai, ops |-> ops, http |-> http, inv |-> inv,
     resp |-> resp, R |-> R]

\* for (const call of calls) { result = await executeTool(...); push }
RECURSIVE ExecAll(_, _, _, _)
\* toolCalls.push({ name, args, result }), then the calls that follow
Pushed(c, d, rest) ==
    [ops |-> <<Record(c.name, c.args, d.result)>> \o rest.ops,
     http |-> d.http \o rest.http,
     R |-> rest.R]
\* the calls after one that ended as d
ExecRest(c, d, calls, k, svc) ==
    Pushed(c, d, ExecAll(calls, d.R, k + Len(d.http), svc))
ExecAll(calls, R, k, svc) ==
    IF calls = <<>> THEN [ops |-> <<>>, http |-> <<>>, R |-> R]
    ELSE ExecRest(Head(calls),
                  executeTool(Head(calls).name, Head(calls).args, R, k, svc),
                  Tail(calls), k, svc)

\* result.success.includes('updated')
IncludesUpdated(text) == text = "File updated successfully"

\* followUpResponse.text || 'Action completed'
FollowUpText(follow) == IF follow = "" THEN "Action completed" ELSE follow

-----------------------------------------------------------------------------
(* app.post('/chat'): the stages of one turn *)

\* toolCall.result.repos.forEach((repo, index) => { responseText += ... })
RECURSIVE ForEachRepo(_, _, _)
ForEachRepo(rs, index, responseText) ==
    IF index >= Len(rs) THEN responseText
    ELSE ForEachRepo(rs, index + 1,
            responseText \o ToString(index + 1) \o ". <strong>" \o rs[index + 1]
                         \o "</strong><br>")

TxtListRepos(result) ==
    LET responseText == "<strong>Your GitHub Repositories:</strong><br><br>"
        length == Len(result.repos)
    IN  IF length = 0
        THEN responseText \o "You don't have any repositories yet."
                          \o "<br><br>Want to create one? Just ask!"
        ELSE ForEachRepo(result.repos, 0, responseText)
                \o "<br>Total: " \o ToString(length) \o " "
                \o (IF length = 1 THEN "repository" ELSE "repositories")
TxtFileWritten(result) ==
    IF IncludesUpdated(result.text) THEN "File updated successfully."
    ELSE "File created successfully."
TxtDanger == "DANGER: You are about to PERMANENTLY DELETE"

\* "Format certain tool responses directly without AI follow-up"; Null when
\* the tool has no template for this result and the AI writes the text
FormatSingle(toolCall) ==
    LET name == toolCall.name
        result == toolCall.result
    IN  CASE name = "list_tools" /\ result.tag = "tools" -> "Here's what I can do"
          [] name = "list_repos" -> TxtListRepos(result)
          [] name = "create_repo" /\ result.tag = "success" ->
                "Repository created successfully."
          [] name = "delete_repo" /\ result.tag = "success" -> result.text
          [] name = "update_file" /\ result.tag = "success" -> TxtFileWritten(result)
          [] name = "delete_file" /\ result.tag = "success" ->
                "File deleted successfully."
          [] OTHER -> Null

\* if (pendingAction === 'repo_name_for_create')
PendingCreate(req, svc, R) ==
    LET repoName == Trim(req.message)
        args == Args(repoName, Null, Null, Null, Null)
        d == executeTool("create_repo", args, R, 0, svc)
        op == Record("create_repo", args, d.result)
    IN  Turn("pendingCreate", <<>>, <<op>>, d.http, NoInv,
             IF IsFailure(d.result) THEN RespText("Failed to create repository")
             ELSE RespFinal("Repository created successfully.", <<op>>),
             d.R)

\* ProposeRepo with the deletion run before the user is asked
ProposeRepo_DeleteFirst(stage, ai, inv, fullRepoName, svc, R) ==
    LET args == Args(Null, fullRepoName, Null, Null, Null)
        d == executeTool("delete_repo", args, R, 0, svc)
        op == Record("delete_repo", args, d.result)
    IN  Turn(stage, ai, <<op>>, d.http, inv,
             IF IsFailure(d.result) THEN RespText("Repository not found.")
             ELSE [RespProposal(TxtDanger, fullRepoName) EXCEPT !.toolCalls = <<op>>],
             d.R)

\* the existence read before a repository proposal, and the three replies
ProposeRepo(stage, ai, inv, fullRepoName, svc, R) ==
    LET forced == Forced(1, svc)
        ok == ~forced /\ fullRepoName \in R.repos
        status == IF ok THEN 200 ELSE IF forced THEN 500 ELSE 404
        rq == Http("GET", "repo", fullRepoName, Null, ok)
    IN  Turn(stage, ai, <<>>, <<rq>>, inv,
             IF ~ok THEN IF status = 404 THEN RespText("Repository not found.")
                         ELSE RespText("Error checking repository")
             ELSE RespProposal(TxtDanger, fullRepoName),
             R)

\* if (pendingAction === 'repo_name_for_delete')
PendingDelete(req, svc, R) ==
    ProposeRepo("pendingDelete", <<>>, NoInv, Qualify(Trim(req.message)), svc, R)

\* if (message.startsWith('FORCE_DELETE_FILE:'))
ForceDelete(req, svc, R) ==
    LET parts == ForceParts(req.message)
        args == Args(Null, parts[1], parts[2], Null, Null)
        d == executeTool("delete_file", args, R, 0, svc)
        op == Record("delete_file", args, d.result)
    IN  Turn("force", <<>>, <<op>>, d.http, NoInv,
             IF IsFailure(d.result) THEN RespError(d.result.text)
             ELSE RespFinal(d.result.text, <<op>>),
             d.R)

\* the function calls read from the reply: all of response.functionCalls, or
\* the first functionCall part of the candidate
FunctionCalls(ai) ==
    CASE ai.shape = "functionCalls" -> ai.calls
      [] ai.shape = "parts" -> <<Head(ai.calls)>>
      [] OTHER -> <<>>

\* if (functionCalls && functionCalls.length > 0)
\* the response after the calls were executed as x: the template of a single
\* call (direct), or the text of the AI's follow-up
StructuredReply(ai, x, direct) ==
    IF direct # Null
    THEN Turn("structured", <<"tools">>, x.ops, x.http, NoInv,
              RespFinal(direct, x.ops), x.R)
    ELSE Turn("structured", <<"tools", "followup">>, x.ops, x.http, NoInv,
              RespFinal(FollowUpText(ai.follow), x.ops), x.R)
StructuredFormat(ai, x) ==
    StructuredReply(ai, x, IF Len(x.ops) = 1 THEN FormatSingle(x.ops[1]) ELSE Null)
Structured(ai, svc, R) ==
    StructuredFormat(ai, ExecAll(FunctionCalls(ai), R, 0, svc))

\* if (jsonMatch && (jsonMatch.tool_calls || jsonMatch.toolCalls))
EmbeddedJsonReply(x) ==
    Turn("json", <<"tools">>, x.ops, x.http, NoInv,
         RespFinal("Action completed", x.ops), x.R)
\* EmbeddedJson without the look-up of the name in the registry
EmbeddedJson_NoRegistryCheck(ai, svc, R) ==
    EmbeddedJsonReply(ExecAll(ai.calls, R, 0, svc))

\* for (const call of calls) { if (tools.find(t => t.name === functionName)) ... }
EmbeddedJson(ai, svc, R) ==
    EmbeddedJsonReply(
        ExecAll(SelectSeq(ai.calls, LAMBDA c : c.name \in ToolNames), R, 0, svc))

\* if (functionCallMatch): the name and the quoted arguments are parsed into
\* functionName and args, and control leaves the else branch that holds the
\* execution, so the turn ends with the initial responseText
InlineCall(ai, R) ==
    Turn("inline", <<"tools">>, <<>>, <<>>, Head(ai.calls), RespFinal("", <<>>), R)


\* repo_name.includes('/') ? repo_name : `${githubUsername}/${repo_name}`
CompleteOwner(repo_name) ==
    IF IncludesSlash(repo_name) THEN repo_name ELSE Qualify(repo_name)

\* let targetRepo = context?.currentRepo; if (intentData.repo_name) ...
TargetRepo(i, ctxRepo) ==
    IF i.repo_name # Null THEN CompleteOwner(i.repo_name) ELSE ctxRepo

Resolved(inv, ai) == [kind |-> "inv", inv |-> inv, resp |-> EmptyResp, ai |-> ai]
Replied(resp)     == [kind |-> "reply", inv |-> NoInv, resp |-> resp, ai |-> <<>>]
Unresolved        == [kind |-> "none", inv |-> NoInv, resp |-> EmptyResp, ai |-> <<>>]

\* "Handle based on intent": the invocation, a clarification reply, or nothing
ResolveIntent(i, ctxRepo, coding) ==
    CASE i.intent = "create_repo" ->
            IF i.repo_name # Null
            THEN Resolved(Call("create_repo",
                               Args(i.repo_name, Null, Null, Null, Null)), <<>>)
            ELSE Replied(RespAwait("What would you like to name your new repository?",
                                   "repo_name_for_create"))
      [] i.intent = "delete_repo" ->
            LET repoToDelete == IF i.repo_name # Null THEN i.repo_name ELSE ctxRepo
            IN  IF repoToDelete # Null
                THEN Resolved(Call("delete_repo",
                        Args(Null, CompleteOwner(repoToDelete), Null, Null, Null)), <<>>)
                ELSE Replied(RespAwait("Which repository would you like to delete?",
                                       "repo_name_for_delete"))
      [] i.intent = "list_repos" -> Resolved(Call("list_repos", NoArgs), <<>>)
      [] i.intent = "list_tools" -> Resolved(Call("list_tools", NoArgs), <<>>)
      [] i.intent \in {"create_file", "update_file"} ->
            IF i.file_name = Null
            THEN Replied(RespText("What would you like to name the file?"))
            ELSE IF TargetRepo(i, ctxRepo) = Null
            THEN Replied(RespText("Which repository should I create this file in?"))
            ELSE Resolved(Call("update_file",
                               Args(Null, TargetRepo(i, ctxRepo), i.file_name,
                                    IF i.file_content # Null THEN i.file_content
                                    ELSE coding,
                                    "Create file")),
                          IF i.file_content # Null THEN <<>> ELSE <<"coding">>)
      [] i.intent = "delete_file" ->
            IF i.file_name = Null
            THEN Replied(RespText("Which file would you like to delete?"))
            ELSE IF TargetRepo(i, ctxRepo) = Null
            THEN Replied(RespText("Which repository is this file in?"))
            ELSE Resolved(Call("delete_file",
                               Args(Null, TargetRepo(i, ctxRepo), i.file_name, Null,
                                    "Delete file")), <<>>)
      [] OTHER -> Unresolved

\* "Format the response based on the tool" of the manually detected function
FormatManual(toolCall, responseTextContent) ==
    LET direct == FormatSingle(toolCall)
    IN  IF direct # Null THEN direct ELSE responseTextContent

\* ExecuteManual that keeps the invocation only when the service took it
ExecuteManual_InvIfTaken(inv, ai, aiCalls, svc, R) ==
    LET d == executeTool(inv.name, inv.args, R, 0, svc)
        op == Record(inv.name, inv.args, d.result)
    IN  IF inv.name = "delete_repo"
        THEN ProposeRepo("intent", aiCalls, inv, inv.args.repo, svc, R)
        ELSE Turn("intent", aiCalls, <<op>>, d.http,
                  IF IsFailure(d.result) THEN NoInv ELSE inv,
                  RespFinal(FormatManual(op, ai.text), <<op>>), d.R)

\* "If function was detected by manual parsing, execute it": a delete_repo is
\* proposed after the existence read, every other function is executed
ExecuteManual(inv, ai, aiCalls, svc, R) ==
    IF inv.name = "delete_repo"
    THEN ProposeRepo("intent", aiCalls, inv, inv.args.repo, svc, R)
    ELSE LET d == executeTool(inv.name, inv.args, R, 0, svc)
             op == Record(inv.name, inv.args, d.result)
         IN  Turn("intent", aiCalls, <<op>>, d.http, inv,
                  RespFinal(FormatManual(op, ai.text), <<op>>), d.R)

\* the else branch of functionCallMatch: classify, resolve, execute or reply
\* JSON.parse(value): a string that is JSON text yields the object; an object
\* is first converted to the string "[object Object]", which is not JSON
JsonParse(value) ==
    IF value.form = "string" THEN [ok |-> TRUE, value |-> [value EXCEPT !.form = "object"]]
    ELSE [ok |-> FALSE, value |-> NoContext]

\* "Parse context if it's a string": the context the handler goes on with
ParseContext(context) ==
    CASE context.form = "string" ->
            IF JsonParse(context).ok THEN JsonParse(context).value ELSE NoContext
      [] context.form = "object" -> context
      [] OTHER -> NoContext

\* let contextInfo = ''; if (context) { try { const ctx = JSON.parse(context); ...
\* on the context ParseContext left
ContextInfo(context) ==
    IF context = NoContext THEN ""
    ELSE IF ~JsonParse(context).ok THEN ""
    ELSE IF JsonParse(context).value.currentFile # NoOpenFile
    THEN "CURRENT CONTEXT: Currently editing: "
         \o JsonParse(context).value.currentFile.path \o " in "
         \o JsonParse(context).value.currentFile.repo
    ELSE IF JsonParse(context).value.currentRepo # Null
    THEN "CURRENT CONTEXT: Currently viewing repo: "
         \o JsonParse(context).value.currentRepo
    ELSE ""

\* const systemPrompt = `You are a helpful GitHub AI assistant. ... ${contextInfo} ...`
SystemPrompt(req) ==
    "You are a helpful GitHub AI assistant. " \o ContextInfo(ParseContext(req.context))

\* reading intentData.intent of null throws a TypeError, which the handler's
\* catch answers with { error: error.message }
IntentStage(req, ai, svc, R) ==
    LET r == ResolveIntent(ParseIntent(ai.intent), ParseContext(req.context).currentRepo,
                          ai.coding)
        aiCalls == <<"tools", "intent">> \o r.ai
    IN  CASE IntentIsNull(ai.intent) ->
                Turn("crash", <<"tools", "intent">>, <<>>, <<>>, NoInv,
                     RespError("Cannot read properties of null (reading 'intent')"), R)
          [] r.kind = "reply" -> Turn("clarify", aiCalls, <<>>, <<>>, NoInv, r.resp, R)
          [] r.kind = "none"  -> Turn("none", aiCalls, <<>>, <<>>, NoInv,
                                      RespText(ai.text), R)
          [] OTHER -> ExecuteManual(r.inv, ai, aiCalls, svc, R)

\* if (!geminiApiKey) ... if (!githubToken) ...
ConfigurationError(e) ==
    IF e.geminiApiKey = Null THEN "GEMINI_API_KEY not configured"
    ELSE IF e.githubToken = Null THEN "GITHUB_TOKEN not configured"
    ELSE Null

\* ChatTurn that goes on to intent classification after an inline call
ChatTurn_InlineFallsThrough(req, ai, svc, R, e) ==
    CASE ConfigurationError(e) # Null ->
            Turn("config", <<>>, <<>>, <<>>, NoInv, RespError(ConfigurationError(e)), R)
      [] req.pendingAction = "repo_name_for_create" -> PendingCreate(req, svc, R)
      [] req.pendingAction = "repo_name_for_delete" -> PendingDelete(req, svc, R)
      [] StartsWithForce(req.message) -> ForceDelete(req, svc, R)
      [] ai.shape \in {"functionCalls", "parts"} -> Structured(ai, svc, R)
      [] ai.shape = "json" -> EmbeddedJson(ai, svc, R)
      [] OTHER -> IntentStage(req, ai, svc, R)

\* ChatTurn with the credential checks placed after the pendingAction and
\* forced-deletion branches
ChatTurn_ChecksAfterPending(req, ai, svc, R, e) ==
    CASE req.pendingAction = "repo_name_for_create" -> PendingCreate(req, svc, R)
      [] req.pendingAction = "repo_name_for_delete" -> PendingDelete(req, svc, R)
      [] StartsWithForce(req.message) -> ForceDelete(req, svc, R)
      [] ConfigurationError(e) # Null ->
            Turn("config", <<>>, <<>>, <<>>, NoInv, RespError(ConfigurationError(e)), R)
      [] ai.shape \in {"functionCalls", "parts"} -> Structured(ai, svc, R)
      [] ai.shape = "json" -> EmbeddedJson(ai, svc, R)
      [] ai.shape = "inline" -> InlineCall(ai, R)
      [] OTHER -> IntentStage(req, ai, svc, R)

\* app.post('/chat', ...)
ChatTurn(req, ai, svc, R, e) ==
    CASE ConfigurationError(e) # Null ->
            Turn("config", <<>>, <<>>, <<>>, NoInv, RespError(ConfigurationError(e)), R)
      [] req.pendingAction = "repo_name_for_create" -> PendingCreate(req, svc, R)
      [] req.pendingAction = "repo_name_for_delete" -> PendingDelete(req, svc, R)
      [] StartsWithForce(req.message) -> ForceDelete(req, svc, R)
      [] ai.shape \in {"functionCalls", "parts"} -> Structured(ai, svc, R)
      [] ai.shape = "json" -> EmbeddedJson(ai, svc, R)
      [] ai.shape = "inline" -> InlineCall(ai, R)
      [] OTHER -> IntentStage(req, ai, svc, R)

\* app.post('/delete', ...): res.json(result)
DeleteTurn(req, svc, R) ==
    IF req.repo = Null
    THEN Turn("delete", <<>>, <<>>, <<>>, NoInv,
              RespError("Repository parameter required"), R)
    ELSE LET args == Args(Null, req.repo, Null, Null, Null)
             d == executeTool("delete_repo", args, R, 0, svc)
             op == Record("delete_repo", args, d.result)
         IN  Turn("delete", <<>>, <<op>>, d.http, NoInv,
                  IF IsFailure(d.result) THEN RespError(d.result.text)
                  ELSE [EmptyResp EXCEPT !.success = d.result.text],
                  d.R)

\* res.json(result) of a direct endpoint: the Operation Result as the body
ResultBody(result, sha) ==
    CASE IsFailure(result) -> RespError(result.text)
      [] result.tag = "success" -> [EmptyResp EXCEPT !.success = result.text]
      [] result.tag = "content" ->
            [EmptyResp EXCEPT !.content = result.content, !.sha = sha]
      [] OTHER -> EmptyResp

\* a direct endpoint that ran one operation
DirectTurn(stage, name, args, d, sha) ==
    Turn(stage, <<>>, <<Record(name, args, d.result)>>, d.http, NoInv,
         ResultBody(d.result, sha), d.R)

\* a direct endpoint that refused the request
Refused(stage, text, R) ==
    Turn(stage, <<>>, <<>>, <<>>, NoInv, RespError(text), R)

\* list_files' own default: args.path || ''
ListArgs(repo) == Args(Null, repo, "", Null, Null)

\* app.get('/files', ...): path = req.query.path || ''
FilesTurn(req, svc, R) ==
    IF req.repo \in {Null, ""}
    THEN Refused("files", "Repository parameter required (format: username/repo-name)", R)
    ELSE DirectTurn("files", "list_files", ListArgs(req.repo),
                    ListFiles(ListArgs(req.repo), R, 0, svc), Null)

\* app.get('/file', ...); the sha of a file is its content as the service
\* holds it
FileTurn(req, svc, R) ==
    IF req.repo \in {Null, ""} \/ req.path \in {Null, ""}
    THEN Refused("file", "Repository and path parameters required", R)
    ELSE DirectTurn("file", "read_file", Args(Null, req.repo, req.path, Null, Null),
                    ReadFile(Args(Null, req.repo, req.path, Null, Null), R, 0, svc),
                    FileAt(R, req.repo, req.path))

\* message || `Update ${filePath}`
CommitMessage(message, filePath) ==
    IF message \notin {Null, ""} THEN message
    ELSE "Update " \o (IF filePath = Null THEN "undefined" ELSE filePath)

\* the arguments /commit hands to update_file
CommitArgs(req) ==
    Args(Null, req.repo, req.path, req.content, CommitMessage(req.message, req.path))

\* app.post('/commit', ...)
CommitTurn(req, svc, R) ==
    IF req.repo \in {Null, ""}
    THEN Refused("commit", "Repository parameter required", R)
    ELSE DirectTurn("commit", "update_file", CommitArgs(req),
                    UpdateFile(CommitArgs(req), R, 0, svc), Null)

\* the direct endpoints other than /delete
DirectEndpoint(req, svc, R) ==
    CASE req.ep = "files" -> FilesTurn(req, svc, R)
      [] req.ep = "file" -> FileTurn(req, svc, R)
      [] req.ep = "commit" -> CommitTurn(req, svc, R)

-----------------------------------------------------------------------------
(* The system: the page, the server, other callers of the HTTP interface *)

Idle == [kind |-> "idle"]
InFlight(req) == [kind |-> "req", req |-> req]
\* what the AI service answered in a turn: the shape and the calls of the
\* first reply and the classifier's reply
Heard(ai) == [shape |-> ai.shape, calls |-> ai.calls, intent |-> ai.intent]
NothingHeard == [shape |-> Null, calls |-> <<>>, intent |-> NoReply]

\* pre: the hosting service's state when the turn began; said: the text of
\* the first AI call's reply, Null when the turn made no AI call; got: what
\* the AI service answered, NothingHeard when the turn made no AI call; asked:
\* the system prompt of the first AI call, Null when the turn made none
Answered(req, turn, pre, said, got, asked) ==
    [kind |-> "turn", req |-> req, turn |-> turn, pre |-> pre, said |-> said,
     got |-> got, asked |-> asked]

\* script.js currentFile = { repo, path, content, sha }; NothingOpen is null
Loaded(repo, path, content, sha) ==
    [repo |-> repo, path |-> path, content |-> content, sha |-> sha]
NothingOpen == Loaded(Null, Null, Null, Null)

\* setTimeout(() => loadFile(currentFile.path), 500), not yet due
ReloadTimer == [kind |-> "timer", call |-> "loadFile"]

\* Idle -> Proposed -> {Confirmed, Cancelled}, for the token last proposed
Machine(state, token) == [state |-> state, token |-> token]

\* a file token: the repository and the path joined by ':::'
FileToken(repo, path) == repo \o ":::" \o path
FileTokens == {FileToken("bot/a", p) : p \in {"README.md", "a:b.txt", "x:::y"}}

\* pendingDeletion.split(':::')
SplitToken(token) ==
    CASE token = "bot/a:::README.md" -> <<"bot/a", "README.md">>
      [] token = "bot/a:::a:b.txt" -> <<"bot/a", "a:b.txt">>
      [] token = "bot/a:::x:::y" -> <<"bot/a", "x", "y">>
      [] token = "bot/a" -> <<"bot/a">>
      [] token = "bot/b" -> <<"bot/b">>
      [] OTHER -> <<token>>

\* `FORCE_DELETE_FILE:${repo}:${path}` with [repo, path] = token.split(':::')
ForceMessageOf(token) ==
    LET parts == SplitToken(token)
        repo == parts[1]
        path == IF Len(parts) >= 2 THEN parts[2] ELSE "undefined"
    IN  "FORCE_DELETE_FILE:" \o repo \o ":" \o path

\* process.env as the server finds it when it starts
Env(geminiApiKey, githubToken) ==
    [geminiApiKey |-> geminiApiKey, githubToken |-> githubToken]
Environments == {Env(k, t) : k \in {"key", Null}, t \in {"token", Null}}

\* what the hosting service may do to the requests of one turn: fail one of
\* them, or take another writer's commit while it fails none
Services ==
    {Svc(n, Null, env.githubToken # Null) : n \in 0..MaxFail}
    \cup {Svc(0, OtherContent, env.githubToken # Null)}

Init ==
    /\ repos = {"bot/a"}
    /\ files = [r \in RepoIds |->
                  [p \in Paths |-> IF r = "bot/a" /\ p = "README.md" THEN InitReadme
                                   ELSE NoFile]]
    /\ refs = [r \in RepoIds |-> NoRefs]
    /\ currentRepo = Null
    /\ pendingDeletion = Null
    /\ pendingDeletionType = Null
    /\ env \in Environments
    /\ net = Idle
    /\ machine = Machine("Idle", Null)
    /\ currentFile = NothingOpen
    /\ chatHistory = <<>>
    /\ pending = {}

\* the page holding a file token, as handleChatResponse leaves it after a
\* response with pendingDeletion and deletionType 'file'; the repository
\* holds any of the files
InitFileToken ==
    /\ repos = {"bot/a"}
    /\ \E held \in SUBSET Paths :
          files = [r \in RepoIds |->
                     [p \in Paths |-> IF r = "bot/a" /\ p \in held THEN InitReadme
                                      ELSE NoFile]]
    /\ refs = [r \in RepoIds |-> NoRefs]
    /\ currentRepo = Null
    /\ pendingDeletion \in FileTokens
    /\ pendingDeletionType = "file"
    /\ env \in Environments
    /\ net = Idle
    /\ machine = Machine("Proposed", pendingDeletion)
    /\ currentFile = NothingOpen
    /\ chatHistory = <<"user">>
    /\ pending = {}

\* script.js selectRepository: the repository the page shows
SelectRepository(repoFullName) ==
    /\ currentRepo' = repoFullName
    /\ currentFile' = NothingOpen
    /\ UNCHANGED <<repos, files, refs, chatHistory, pendingDeletion, pendingDeletionType,
                   env, net, pending, machine>>

\* htmx:configRequest: JSON.stringify({ currentRepo, currentFile }); the
\* editor holds the content that was loaded
PageContext ==
    Ctx("string", currentRepo,
        IF currentFile = NothingOpen THEN NoOpenFile
        ELSE OpenFile(currentFile.repo, currentFile.path, currentFile.content))

\* the most entries of chatHistory with which the chat form still takes a
\* normal message
MaxHistory == 3

\* the chat form takes a message: one for a token held, or a normal one
\* while the history is short
FormOpen == pendingDeletion # Null \/ Len(chatHistory) < MaxHistory

\* the most exchanges and timers outstanding besides the one at hand
MaxPending == 2

\* ConfirmRequest with the test of the token's kind inverted
ConfirmRequest_KindInverted(token, type) ==
    IF type # "file" THEN ChatReq("confirm", ForceMessageOf(token), NoContext, Null)
    ELSE DeleteReq("confirm", token)

\* the request handleChatSubmit sends after "yes"
ConfirmRequest(token, type) ==
    IF type = "file" THEN ChatReq("confirm", ForceMessageOf(token), NoContext, Null)
    ELSE DeleteReq("confirm", token)

\* handleChatSubmit that cancels on "no" only and confirms on anything else
HandleChatSubmit_CancelOnNoOnly(input) ==
    LET message == Trim(input)
    IN  /\ net = Idle
        /\ IF message = ""
           THEN UNCHANGED <<chatHistory, pendingDeletion, pendingDeletionType, net, machine>>
           ELSE IF pendingDeletion # Null
           THEN /\ net' = IF ToLowerCase(message) # "no"
                          THEN InFlight(DeleteReq("confirm", pendingDeletion))
                          ELSE net
                /\ pendingDeletion' = Null
                /\ pendingDeletionType' = Null
                /\ UNCHANGED chatHistory
                /\ machine' = Machine(IF ToLowerCase(message) # "no" THEN "Confirmed"
                                       ELSE "Cancelled", pendingDeletion)
           ELSE /\ chatHistory' = Append(chatHistory, "user")
                /\ net' = InFlight(ChatReq("form", input, PageContext, Null))
                /\ UNCHANGED <<pendingDeletion, pendingDeletionType, machine>>
        /\ UNCHANGED <<repos, files, refs, currentRepo, currentFile, env, pending>>

\* handleChatSubmit whose cancel branch does not return: the message that
\* cancelled goes on as a normal message
HandleChatSubmit_CancelFallsThrough(input) ==
    LET message == Trim(input)
    IN  /\ net = Idle
        /\ IF message = ""
           THEN UNCHANGED <<chatHistory, pendingDeletion, pendingDeletionType, net, machine>>
           ELSE IF pendingDeletion # Null /\ ToLowerCase(message) = "yes"
           THEN /\ net' = InFlight(ConfirmRequest(pendingDeletion, pendingDeletionType))
                /\ pendingDeletion' = Null
                /\ pendingDeletionType' = Null
                /\ UNCHANGED chatHistory
                /\ machine' = Machine("Confirmed", pendingDeletion)
           ELSE /\ chatHistory' = Append(chatHistory, "user")
                /\ net' = InFlight(ChatReq("form", input, PageContext, Null))
                /\ pendingDeletion' = Null
                /\ pendingDeletionType' = Null
                /\ machine' = IF pendingDeletion # Null
                              THEN Machine("Cancelled", pendingDeletion) ELSE machine
        /\ UNCHANGED <<repos, files, refs, currentRepo, currentFile, env, pending>>

\* handleChatSubmit that looks at the token before it looks at the message:
\* an empty message cancels
HandleChatSubmit_TokenBeforeEmpty(input) ==
    LET message == Trim(input)
    IN  /\ net = Idle
        /\ IF pendingDeletion # Null
           THEN /\ net' = IF ToLowerCase(message) = "yes"
                          THEN InFlight(ConfirmRequest(pendingDeletion,
                                                       pendingDeletionType))
                          ELSE net
                /\ pendingDeletion' = Null
                /\ pendingDeletionType' = Null
                /\ UNCHANGED chatHistory
                /\ machine' = Machine(IF ToLowerCase(message) = "yes" THEN "Confirmed"
                                       ELSE "Cancelled", pendingDeletion)
           ELSE IF message = ""
           THEN UNCHANGED <<chatHistory, pendingDeletion, pendingDeletionType, net, machine>>
           ELSE /\ chatHistory' = Append(chatHistory, "user")
                /\ net' = InFlight(ChatReq("form", input, PageContext, Null))
                /\ UNCHANGED <<pendingDeletion, pendingDeletionType, machine>>
        /\ UNCHANGED <<repos, files, refs, currentRepo, currentFile, env, pending>>

\* script.js handleChatSubmit, with the form's request when it is not prevented
HandleChatSubmit(input) ==
    LET message == Trim(input)
    IN  /\ net = Idle
        /\ IF message = ""
           THEN UNCHANGED <<chatHistory, pendingDeletion, pendingDeletionType, net, machine>>
           ELSE IF pendingDeletion # Null
           THEN /\ net' = IF ToLowerCase(message) = "yes"
                          THEN InFlight(ConfirmRequest(pendingDeletion,
                                                       pendingDeletionType))
                          ELSE net
                /\ pendingDeletion' = Null
                /\ pendingDeletionType' = Null
                /\ UNCHANGED chatHistory
                /\ machine' = Machine(IF ToLowerCase(message) = "yes" THEN "Confirmed"
                                       ELSE "Cancelled", pendingDeletion)
           ELSE /\ chatHistory' = Append(chatHistory, "user")
                /\ net' = InFlight(ChatReq("form", input, PageContext, Null))
                /\ UNCHANGED <<pendingDeletion, pendingDeletionType, machine>>
        /\ UNCHANGED <<repos, files, refs, currentRepo, currentFile, env, pending>>

\* a caller of POST /chat that supplies pendingAction
ApiChat(message, pendingAction) ==
    /\ net = Idle
    /\ net' = InFlight(ChatReq("api", message, NoContext, pendingAction))
    /\ UNCHANGED <<repos, files, refs, currentRepo, pendingDeletion, pendingDeletionType,
                   env, currentFile, chatHistory, pending, machine>>

\* the contexts a caller of POST /chat supplies
Contexts ==
    {Ctx(f, r, o) : f \in {"string", "object"}, r \in {Null, "bot/a"},
                    o \in {NoOpenFile, OpenFile("bot/a", "README.md", "c0")}}
    \cup {NoContext}

\* a caller of POST /chat that supplies a context
ApiChatContext(message, context) ==
    /\ net = Idle
    /\ net' = InFlight(ChatReq("api", message, context, Null))
    /\ UNCHANGED <<repos, files, refs, currentRepo, pendingDeletion, pendingDeletionType,
                   env, currentFile, chatHistory, pending, machine>>

\* a caller of POST /delete
ApiDelete(repo) ==
    /\ net = Idle
    /\ net' = InFlight(DeleteReq("api", repo))
    /\ UNCHANGED <<repos, files, refs, currentRepo, pendingDeletion, pendingDeletionType,
                   env, currentFile, chatHistory, pending, machine>>

\* the server handles a POST /chat; Replies: what the AI service may answer,
\* Faults: what the hosting service may do to the turn's requests
Serve(Replies, Faults) ==
    /\ net.kind = "req"
    /\ net.req.ep = "chat"
    /\ \E ai \in Replies, svc \in Faults :
          \E t \in {ChatTurn(net.req, ai, svc, Remote(repos, files, refs), env)} :
              /\ net' = Answered(net.req, t, Remote(repos, files, refs),
                                 IF t.ai = <<>> THEN Null ELSE ai.text,
                                 IF t.ai = <<>> THEN NothingHeard ELSE Heard(ai),
                                 IF t.ai = <<>> THEN Null ELSE SystemPrompt(net.req))
              /\ repos' = t.R.repos
              /\ files' = t.R.files
              /\ refs' = t.R.refs
    /\ UNCHANGED <<currentRepo, pendingDeletion, pendingDeletionType, env, currentFile, chatHistory, pending, machine>>

ServeChat == Serve(AiReplies, Services)

\* the server handles a POST /delete
ServeDelete ==
    /\ net.kind = "req"
    /\ net.req.ep = "delete"
    /\ \E svc \in Services :
          \E t \in {DeleteTurn(net.req, svc, Remote(repos, files, refs))} :
              /\ net' = Answered(net.req, t, Remote(repos, files, refs), Null, NothingHeard, Null)
              /\ repos' = t.R.repos
              /\ files' = t.R.files
              /\ refs' = t.R.refs
    /\ UNCHANGED <<currentRepo, pendingDeletion, pendingDeletionType, env, currentFile, chatHistory, pending, machine>>

\* response.response is shown: no error and a text that is not empty
Shown(response) == response.error = Null /\ response.response \notin {Null, ""}

\* the refresh after the tool calls: a call that succeeded and was update_file
\* with a path (selectRepository(currentRepo) follows at once) or delete_file
\* empties the editor, when a repository is selected
ClearsEditor(toolCalls, repo) ==
    /\ repo # Null
    /\ \E i \in 1..Len(toolCalls) :
          /\ ~IsFailure(toolCalls[i].result)
          /\ \/ toolCalls[i].name = "update_file" /\ toolCalls[i].args.path # Null
             \/ toolCalls[i].name = "delete_file"

\* handleChatResponse that keeps the token it holds when a proposal arrives
HandleChatResponse_KeepsFirstToken ==
    /\ net.kind = "turn"
    /\ net.req.src = "form"
    /\ LET response == net.turn.resp
       IN  /\ IF Shown(response) /\ response.pendingDeletion # Null
              THEN /\ pendingDeletion' = IF pendingDeletion # Null THEN pendingDeletion
                                         ELSE response.pendingDeletion
                   /\ pendingDeletionType' =
                         IF pendingDeletion # Null THEN pendingDeletionType
                         ELSE IF response.deletionType # Null THEN response.deletionType
                         ELSE "repo"
                   /\ machine' = Machine("Proposed", response.pendingDeletion)
              ELSE UNCHANGED <<pendingDeletion, pendingDeletionType, machine>>
           /\ currentFile' = IF Shown(response) /\ ClearsEditor(response.toolCalls, currentRepo)
                             THEN NothingOpen ELSE currentFile
           /\ chatHistory' = IF Shown(response) /\ response.pendingDeletion = Null
                             THEN Append(chatHistory, "model") ELSE chatHistory
    /\ net' = Idle
    /\ UNCHANGED <<repos, files, refs, currentRepo, env, pending>>

\* script.js handleChatResponse: the answer to the chat form's request. The
\* timers it sets to refresh the panes call selectRepository and loadFile,
\* which the page may run at any time (SelectRepository, LoadFile)
HandleChatResponse ==
    /\ net.kind = "turn"
    /\ net.req.src = "form"
    /\ LET response == net.turn.resp
       IN  /\ IF Shown(response) /\ response.pendingDeletion # Null
              THEN /\ pendingDeletion' = response.pendingDeletion
                   /\ pendingDeletionType' =
                         IF response.deletionType # Null THEN response.deletionType
                         ELSE "repo"
                   /\ machine' = Machine("Proposed", response.pendingDeletion)
              ELSE UNCHANGED <<pendingDeletion, pendingDeletionType, machine>>
           /\ currentFile' = IF Shown(response) /\ ClearsEditor(response.toolCalls, currentRepo)
                             THEN NothingOpen ELSE currentFile
           /\ chatHistory' = IF Shown(response) /\ response.pendingDeletion = Null
                             THEN Append(chatHistory, "model") ELSE chatHistory
    /\ net' = Idle
    /\ UNCHANGED <<repos, files, refs, currentRepo, env, pending>>

\* script.js handleChatSubmit: the .then of the confirmed deletion's fetch
HandleDeleteResult ==
    /\ net.kind = "turn"
    /\ net.req.src = "confirm"
    /\ net' = Idle
    /\ currentFile' = IF /\ net.req.ep = "chat"
                         /\ net.turn.resp.error = Null
                         /\ currentRepo # Null
                      THEN NothingOpen ELSE currentFile
    /\ UNCHANGED <<repos, files, refs, currentRepo, chatHistory, pendingDeletion,
                   pendingDeletionType, env, pending, machine>>

\* script.js loadFile, up to its fetch of /file
LoadFile(filePath) ==
    /\ net = Idle
    /\ currentRepo # Null
    /\ net' = InFlight(FileReq("page", currentRepo, filePath))
    /\ UNCHANGED <<repos, files, refs, currentRepo, currentFile, chatHistory,
                   pendingDeletion, pendingDeletionType, env, pending, machine>>

\* script.js loadFile, after its await: currentFile = { repo: currentRepo,
\* path: filePath, content: data.content, sha: data.sha }
HandleFileLoaded ==
    /\ net.kind = "turn"
    /\ net.req.ep = "file"
    /\ net.req.src = "page"
    /\ currentFile' = IF net.turn.resp.error # Null THEN currentFile
                      ELSE Loaded(currentRepo, net.req.path,
                                  net.turn.resp.content, net.turn.resp.sha)
    /\ net' = Idle
    /\ UNCHANGED <<repos, files, refs, currentRepo, chatHistory, pendingDeletion,
                   pendingDeletionType, env, pending, machine>>

\* script.js createNewFileInRepo
CreateNewFileInRepo(repoFullName) ==
    /\ currentRepo' = repoFullName
    /\ UNCHANGED <<repos, files, refs, currentFile, chatHistory, pendingDeletion,
                   pendingDeletionType, env, net, pending, machine>>

\* script.js saveFile, up to its fetch of /commit; typed: what the user typed
\* over the editor's content, Null when nothing
SaveFile(typed) ==
    /\ net = Idle
    /\ currentFile # NothingOpen
    /\ ReloadTimer \notin pending
    /\ net' = InFlight(CommitReq("page", currentFile.repo, currentFile.path,
                                 IF typed = Null THEN currentFile.content ELSE typed,
                                 "Update " \o currentFile.path))
    /\ UNCHANGED <<repos, files, refs, currentRepo, currentFile, chatHistory,
                   pendingDeletion, pendingDeletionType, env, pending, machine>>

\* script.js saveFile, after its await: the reload is set for later
HandleSaved ==
    /\ net.kind = "turn"
    /\ net.req.ep = "commit"
    /\ net.req.src = "page"
    /\ pending' = IF net.turn.resp.error = Null THEN pending \cup {ReloadTimer}
                  ELSE pending
    /\ net' = Idle
    /\ UNCHANGED <<repos, files, refs, currentRepo, currentFile, chatHistory,
                   pendingDeletion, pendingDeletionType, env, machine>>

\* the timer of saveFile is due: loadFile(currentFile.path), which throws
\* when no file is open and returns when no repository is selected
Reload ==
    /\ ReloadTimer \in pending
    /\ net = Idle
    /\ pending' = pending \ {ReloadTimer}
    /\ net' = IF currentFile = NothingOpen \/ currentRepo = Null THEN net
              ELSE InFlight(FileReq("page", currentRepo, currentFile.path))
    /\ UNCHANGED <<repos, files, refs, currentRepo, currentFile, chatHistory,
                   pendingDeletion, pendingDeletionType, env, machine>>

\* a caller of a direct endpoint other than /delete
ApiDirect(req) ==
    /\ net = Idle
    /\ net' = InFlight(req)
    /\ UNCHANGED <<repos, files, refs, currentRepo, currentFile, chatHistory,
                   pendingDeletion, pendingDeletionType, env, pending, machine>>

\* the server handles a GET /files, a GET /file or a POST /commit
ServeDirect ==
    /\ net.kind = "req"
    /\ net.req.ep \in {"files", "file", "commit"}
    /\ \E svc \in Services :
          \E t \in {DirectEndpoint(net.req, svc, Remote(repos, files, refs))} :
              /\ net' = Answered(net.req, t, Remote(repos, files, refs), Null,
                                 NothingHeard, Null)
              /\ repos' = t.R.repos
              /\ files' = t.R.files
              /\ refs' = t.R.refs
    /\ UNCHANGED <<currentRepo, currentFile, chatHistory, pendingDeletion,
                   pendingDeletionType, env, pending, machine>>

\* an exchange leaves for the network, where others may overtake it
Park ==
    /\ net.kind \in {"req", "turn"}
    /\ net \notin pending
    /\ Cardinality(pending) < MaxPending
    /\ pending' = pending \cup {net}
    /\ net' = Idle
    /\ UNCHANGED <<repos, files, refs, currentRepo, currentFile, chatHistory,
                   pendingDeletion, pendingDeletionType, env, machine>>

\* an exchange arrives from the network
Unpark(x) ==
    /\ net = Idle
    /\ x \in pending
    /\ x.kind \in {"req", "turn"}
    /\ pending' = pending \ {x}
    /\ net' = x
    /\ UNCHANGED <<repos, files, refs, currentRepo, currentFile, chatHistory,
                   pendingDeletion, pendingDeletionType, env, machine>>

\* another caller receives its answer
ApiAnswered ==
    /\ net.kind = "turn"
    /\ net.req.src = "api"
    /\ net' = Idle
    /\ UNCHANGED <<repos, files, refs, currentRepo, pendingDeletion, pendingDeletionType,
                   env, currentFile, chatHistory, pending, machine>>

Next ==
    \/ \E r \in RepoIds : SelectRepository(r)
    \/ \E m \in UserMessages : FormOpen /\ HandleChatSubmit(m)
    \/ \E m \in {"a", " b "} : ApiChat(m, "repo_name_for_create")
    \/ \E m \in {"a", " b ", "bot/a"} : ApiChat(m, "repo_name_for_delete")
    \/ \E r \in RepoIds \cup {Null} : ApiDelete(r)
    \/ ServeChat
    \/ ServeDelete
    \/ HandleChatResponse
    \/ HandleDeleteResult
    \/ ApiAnswered

Spec == Init /\ [][Next]_vars

\* from a file proposal to its resolution
NextFileToken ==
    \/ \E m \in UserMessages : pendingDeletion # Null /\ HandleChatSubmit(m)
    \/ ServeChat
    \/ HandleDeleteResult

SpecFileToken == InitFileToken /\ [][NextFileToken]_vars

\* callers of POST /chat that supply the ambient context themselves
NextContext ==
    \/ \E c \in Contexts : ApiChatContext("hello", c)
    \/ ServeChat
    \/ ApiAnswered

SpecContext == Init /\ [][NextContext]_vars

\* the calls of the change-proposal tools
PrCalls ==
    {Call("create_pr", PrArgs(r, f, c, t)) :
        r \in RepoIds, f \in {"README.md", "x"}, c \in {"c1", Null}, t \in {"t", Null}}
    \cup {Call("list_prs", MergeArgs(r, Null)) : r \in RepoIds}
    \cup {Call("merge_pr", MergeArgs("bot/a", n)) : n \in {"1", "2"}}

\* first replies that hold one structured call, of any tool
OneCallReplies ==
    {AiReply("functionCalls", <<c>>, "ai_followup", NoReply) : c \in AiCalls \cup PrCalls}

\* the hosting service fails any one request of an operation, or none
MaxRequests == 5
AnyFault == {Svc(n, Null, env.githubToken # Null) : n \in 0..MaxRequests}

\* the most branches create_pr makes in a run
MaxBranches == 2

\* a caller of POST /chat, while the run may make branches
ApiChatPlain(message) ==
    /\ \A r \in RepoIds : refs[r].branches < MaxBranches
    /\ ApiChatContext(message, NoContext)

\* the server handles a POST /chat that the AI answers with one structured call
ServeOneCall == Serve(OneCallReplies, AnyFault)

\* single operations of the gateway, each request of which may fail
NextGateway ==
    \/ ApiChatPlain("hello")
    \/ ServeOneCall
    \/ ApiAnswered

SpecGateway == Init /\ [][NextGateway]_vars

\* the account holding two repositories, as two create_repo turns leave it
InitTwoRepos ==
    /\ repos = {"bot/a", "bot/b"}
    /\ files = [r \in RepoIds |->
                  [p \in Paths |-> IF p = "README.md" THEN InitReadme ELSE NoFile]]
    /\ refs = [r \in RepoIds |-> NoRefs]
    /\ currentRepo = Null
    /\ currentFile = NothingOpen
    /\ chatHistory = <<>>
    /\ pendingDeletion = Null
    /\ pendingDeletionType = Null
    /\ env \in Environments
    /\ net = Idle
    /\ pending = {}
    /\ machine = Machine("Idle", Null)

\* the classifier finds the intent to delete a repository it names
DeleteReplies ==
    {AiReply("text", <<>>, "", Classified("object", IntentData("delete_repo", n, Null, Null))) :
        n \in {"a", "bot/b"}}

\* the server handles a POST /chat that asks to delete a repository
ServeDeleteIntent == Serve(DeleteReplies, Services)

\* the chat form with several requests in transit, answered in any order
NextRace ==
    \/ \E m \in {"hello", "yes", "no"} : FormOpen /\ HandleChatSubmit(m)
    \/ ServeDeleteIntent
    \/ ServeDelete
    \/ HandleChatResponse
    \/ HandleDeleteResult
    \/ Park
    \/ \E x \in pending : Unpark(x)

SpecRace == InitTwoRepos /\ [][NextRace]_vars

\* the server has just answered the first message of the chat form by asking
\* for the repository's name (awaitingInput), as Serve leaves it
InitAwaiting ==
    /\ repos = {"bot/a"}
    /\ files = [r \in RepoIds |->
                  [p \in Paths |-> IF r = "bot/a" /\ p = "README.md" THEN InitReadme
                                   ELSE NoFile]]
    /\ refs = [r \in RepoIds |-> NoRefs]
    /\ currentRepo = Null
    /\ currentFile = NothingOpen
    /\ chatHistory = <<"user">>
    /\ pendingDeletion = Null
    /\ pendingDeletionType = Null
    /\ env \in Environments
    /\ pending = {}
    /\ machine = Machine("Idle", Null)
    /\ \E ai \in AiReplies, svc \in Services :
          \E t \in {ChatTurn(ChatReq("form", "hello", PageContext, Null), ai, svc,
                              Remote(repos, files, refs), env)} :
              /\ t.resp.awaitingInput # Null
              /\ net = Answered(ChatReq("form", "hello", PageContext, Null), t,
                                Remote(repos, files, refs), ai.text, Heard(ai),
                                SystemPrompt(ChatReq("form", "hello", PageContext, Null)))

\* the page takes the answer and the user's next message, which the server
\* answers
NextAwaiting ==
    \/ HandleChatResponse
    \/ \E m \in {"a", " b ", "hello"} : Len(chatHistory) <= MaxHistory /\ HandleChatSubmit(m)
    \/ ServeChat

SpecAwaiting == InitAwaiting /\ [][NextAwaiting]_vars

\* the requests callers send to /files, /file and /commit, with and without
\* their parameters
DirectReqs ==
    {FilesReq("api", r, Null) : r \in {Null, "bot/a"}}
    \cup {FileReq("api", r, f) : r \in {Null, "bot/a"}, f \in {Null, "README.md"}}
    \cup {CommitReq("api", r, f, c, m) :
             r \in {Null, "bot/a"}, f \in {Null, "README.md", "x"},
             c \in {Null, "c1"}, m \in {Null, "msg"}}

\* callers of the direct endpoints
NextDirect ==
    \/ \E req \in DirectReqs : ApiDirect(req)
    \/ \E r \in RepoIds \cup {Null} : ApiDelete(r)
    \/ ServeDirect
    \/ ServeDelete
    \/ ApiAnswered

SpecDirect == Init /\ [][NextDirect]_vars

\* the file panes: repositories selected, files loaded and saved, one fetch
\* at a time
NextEditor ==
    \/ \E r \in RepoIds : SelectRepository(r)
    \/ \E r \in RepoIds : CreateNewFileInRepo(r)
    \/ \E f \in {"README.md", "x"} : LoadFile(f)
    \/ \E typed \in {Null, "c1"} : SaveFile(typed)
    \/ ServeDirect
    \/ HandleFileLoaded
    \/ HandleSaved
    \/ Reload

SpecEditor == InitTwoRepos /\ [][NextEditor]_vars

-----------------------------------------------------------------------------
(* Properties *)

TurnDone == net.kind = "turn"
Range(seq) == {seq[i] : i \in 1..Len(seq)}

\* the delete requests the turn sent to the hosting service
DeleteCalls(turn) == {h \in Range(turn.http) : h.m = "DELETE"}

\* the target a confirmed request names: the token the client held
ConfirmedTarget(req) ==
    IF req.ep = "delete" THEN <<req.repo, Null>>
    ELSE <<ForceParts(req.message)[1], ForceParts(req.message)[2]>>

\* C1: every delete call made to the hosting service belongs to a request the
\* client sent on "yes" to a proposal, and deletes the target of that proposal.
C1_DeleteOnlyAfterConfirmed ==
    TurnDone =>
        \A h \in DeleteCalls(net.turn) :
            /\ net.req.src = "confirm"
            /\ <<h.repo, h.path>> = ConfirmedTarget(net.req)

\* C2: a turn whose intent resolution arrives at delete_file(repo, path) for a
\* file that exists sends no delete request and answers with a proposal that
\* carries pendingDeletion and deletionType "file".
C2_DeleteFileIsProposed ==
    (/\ TurnDone
     /\ net.turn.stage = "intent"
     /\ net.turn.inv.name = "delete_file"
     /\ FileAt(net.pre, net.turn.inv.args.repo, net.turn.inv.args.path) # NoFile)
    => /\ DeleteCalls(net.turn) = {}
       /\ net.turn.resp.pendingDeletion # Null
       /\ net.turn.resp.deletionType = "file"

\* the step of the page that cancels: the token is dropped, no request is
\* sent and the hosting service is left as it is
CancelledStep ==
    /\ pendingDeletion' = Null
    /\ pendingDeletionType' = Null
    /\ machine' = Machine("Cancelled", pendingDeletion)
    /\ net' = net
    /\ UNCHANGED <<repos, files, refs>>

\* C3 as stated: with a token held, a submitted message other than "yes"
\* (compared case-insensitively) cancels.
C3_AnyOtherMessageCancels ==
    [][\A m \in UserMessages :
          (pendingDeletion # Null /\ HandleChatSubmit(m) /\ ToLowerCase(m) # "yes")
          => CancelledStep]_vars

\* C3 amended: with a token held, a submitted message that, trimmed, is not
\* empty and is not "yes" (compared case-insensitively) cancels: no request is
\* sent, the hosting service is unchanged and the token is dropped.
C3_OtherTrimmedMessageCancels ==
    [][\A m \in UserMessages :
          (/\ pendingDeletion # Null
           /\ HandleChatSubmit(m)
           /\ Trim(m) # ""
           /\ ToLowerCase(Trim(m)) # "yes")
          => CancelledStep]_vars

C3_Witness ==
    /\ machine.state = "Cancelled"
    /\ pendingDeletion = Null
    /\ machine.token \in repos
    /\ net = Idle

\* C4: with a repository token R held, "yes" (in any case) sends exactly one
\* request, a /delete for R; the turn that serves it runs delete_repo once,
\* for R only, and answers with that operation's result.
C4_YesStep ==
    \A m \in UserMessages :
        (/\ pendingDeletion # Null
         /\ pendingDeletionType = "repo"
         /\ HandleChatSubmit(m)
         /\ ToLowerCase(m) = "yes")
        => /\ net' = InFlight(DeleteReq("confirm", pendingDeletion))
           /\ pendingDeletion' = Null
           /\ UNCHANGED <<repos, files, refs>>

C4_ConfirmedTurn ==
    (TurnDone /\ net.req.src = "confirm")
    => /\ net.req.ep = "delete"
       /\ net.req.repo = machine.token
       /\ machine.state = "Confirmed"
       /\ Len(net.turn.ops) = 1
       /\ net.turn.ops[1].name = "delete_repo"
       /\ net.turn.ops[1].args.repo = net.req.repo
       /\ Len(net.turn.http) = 1
       /\ net.turn.http[1].m = "DELETE"
       /\ net.turn.http[1].repo = net.req.repo
       /\ IF net.turn.http[1].ok
          THEN /\ net.turn.resp.success = net.turn.ops[1].result.text
               /\ net.turn.ops[1].result.tag = "success"
               /\ net.turn.resp.error = Null
               /\ net.req.repo \notin repos
               /\ repos = net.pre.repos \ {net.req.repo}
          ELSE /\ net.turn.resp.error # Null
               /\ net.turn.resp.success = Null
               /\ repos = net.pre.repos

C4_YesDeletesExactlyTheToken == [][C4_YesStep]_vars /\ []C4_ConfirmedTurn

C4_Witness ==
    /\ TurnDone
    /\ net.req.src = "confirm"
    /\ net.turn.resp.success # Null
    /\ net.req.repo \in net.pre.repos

\* C5: a request that presents a token again after the token went to
\* Confirmed or Cancelled deletes nothing.
C5_TokenIsSingleUse ==
    (/\ TurnDone
     /\ net.req.src = "api"
     /\ net.req.ep = "delete"
     /\ machine.state \in {"Confirmed", "Cancelled"}
     /\ net.req.repo = machine.token)
    => \A h \in DeleteCalls(net.turn) : ~h.ok

\* the repository a turn resolved a deletion for
DeletesRepo(n, r) ==
    \/ n.turn.stage = "intent" /\ n.turn.inv = Call("delete_repo", Args(Null, r, Null, Null, Null))
    \/ n.turn.stage = "pendingDelete" /\ r = Qualify(Trim(n.req.message))
    \/ /\ n.turn.stage \in {"structured", "json"}
       /\ \E op \in Range(n.turn.ops) : op.name = "delete_repo" /\ op.args.repo = r

\* C6: a turn that resolves to deleting a repository that does not exist
\* answers "not found", issues no token and sends no delete request.
C6_MissingRepoIsNotFound ==
    TurnDone =>
        \A r \in RepoIds :
            (DeletesRepo(net, r) /\ r \notin net.pre.repos)
            => /\ net.turn.resp.response = "Repository not found."
               /\ net.turn.resp.pendingDeletion = Null
               /\ DeleteCalls(net.turn) = {}

C8_NoCallWithMissingArgument ==
    TurnDone =>
        \A op \in Range(net.turn.ops) : MissingRequired(op.name, op.args) = {}

\* texts that tell the user the operation worked
SuccessWording(text) ==
    text \in {"Action completed", "Repository created successfully.",
              "Repository deleted successfully", "File updated successfully.",
              "File created successfully.", "File deleted successfully.",
              "File deleted successfully"}

\* the response tells the user that an operation failed: an error field, a
\* failure line of the server, or the text the AI wrote from the results
ReportsFailure(resp) ==
    \/ resp.error # Null
    \/ resp.response \in {"Failed to create repository", "ai_followup"}

\* C9: a turn whose trace holds a Failure reports the failure and uses no
\* success wording.
C9_FailureIsReported ==
    (/\ TurnDone
     /\ net.req.ep = "chat"
     /\ \E tc \in Range(net.turn.resp.toolCalls) : IsFailure(tc.result))
    => /\ ReportsFailure(net.turn.resp)
       /\ ~SuccessWording(net.turn.resp.response)

\* C10: the toolCalls of a /chat response are the operations the turn
\* executed, one record each, in execution order.
C10_TraceIsWhatWasExecuted ==
    (TurnDone /\ net.req.ep = "chat")
    => net.turn.resp.toolCalls = net.turn.ops

\* turns that end in a clarification, a proposal or an error reply
IsClarification(turn) == turn.stage = "clarify"
IsProposal(turn) == turn.resp.pendingDeletion # Null
IsErrorReply(turn) ==
    \/ turn.resp.error # Null
    \/ turn.resp.response \in {"Repository not found.", "Error checking repository",
                                "Failed to create repository"}

\* C11: a /chat turn that asked the AI, executed no operation and is not a
\* clarification, a proposal or an error reply answers with the text of the
\* first AI call, unchanged, and carries no Execution Record.
C11_ConversationalReplyIsAiText ==
    (/\ TurnDone
     /\ net.req.ep = "chat"
     /\ net.said # Null
     /\ net.turn.ops = <<>>
     /\ ~IsClarification(net.turn)
     /\ ~IsProposal(net.turn)
     /\ ~IsErrorReply(net.turn))
    => /\ net.turn.resp.response = net.said
       /\ net.turn.resp.toolCalls = <<>>

\* C12: with the AI credential or the hosting credential missing, every /chat
\* turn (normal message, pendingAction follow-up, forced deletion) answers with
\* the configuration error only, calls the AI never and sends the hosting
\* service nothing.
C12_MissingCredentialStopsTheTurn ==
    (/\ TurnDone
     /\ net.req.ep = "chat"
     /\ (env.geminiApiKey = Null \/ env.githubToken = Null))
    => /\ net.turn.resp \in {RespError("GEMINI_API_KEY not configured"),
                              RespError("GITHUB_TOKEN not configured")}
       /\ net.turn.ai = <<>>
       /\ net.said = Null
       /\ net.turn.ops = <<>>
       /\ net.turn.http = <<>>
       /\ Remote(repos, files, refs) = net.pre

C12_Witness ==
    /\ TurnDone
    /\ net.req.ep = "chat"
    /\ env.githubToken = Null
    /\ env.geminiApiKey # Null
    /\ net.req.pendingAction = "repo_name_for_create"
    /\ net.turn.resp.error = "GITHUB_TOKEN not configured"

\* C13: the one response of a /chat turn carries an error field or a response
\* text that is not empty.
C13_ResponseIsNeverEmpty ==
    (TurnDone /\ net.req.ep = "chat")
    => \/ net.turn.resp.error # Null
       \/ net.turn.resp.response \notin {Null, ""}

\* positions i < j of the turn's trace where a successful update_file is
\* followed directly by a successful read_file of the same file
RoundTrips(turn) ==
    {i \in 1..(Len(turn.ops) - 1) :
        /\ turn.ops[i].name = "update_file"
        /\ turn.ops[i].result.tag = "success"
        /\ turn.ops[i + 1].name = "read_file"
        /\ turn.ops[i + 1].result.tag = "content"
        /\ turn.ops[i + 1].args.repo = turn.ops[i].args.repo
        /\ turn.ops[i + 1].args.path = turn.ops[i].args.path}

\* C14 as stated: read_file after a successful update_file returns exactly
\* the content that was written.
C14_ReadReturnsWhatWasWritten ==
    TurnDone =>
        \A i \in RoundTrips(net.turn) :
            net.turn.ops[i + 1].result.content = net.turn.ops[i].args.content

\* C14 amended: read_file after a successful update_file returns exactly the
\* content that was written when that content is a well-formed string; the
\* bytes stored are those of the written content in either case, whether or
\* not the file existed before.
C14_WellFormedContentRoundTrips ==
    TurnDone =>
        \A i \in RoundTrips(net.turn) :
            /\ IsWellFormed(net.turn.ops[i].args.content)
                 => net.turn.ops[i + 1].result.content = net.turn.ops[i].args.content
            /\ ToBase64(net.turn.ops[i + 1].result.content)
                 = ToBase64(net.turn.ops[i].args.content)

C14_Witness ==
    /\ TurnDone
    /\ RoundTrips(net.turn) = {1}
    /\ FileAt(net.pre, "bot/a", "README.md") = NoFile
    /\ net.turn.ops[2].result.content = "c1"

\* the requests of the turn that are writes of the server itself
ServerWrites(turn) ==
    {i \in 1..Len(turn.http) :
        turn.http[i].m = "PUT" /\ turn.http[i].u = "contents"}

\* the turn ran one update_file, and another writer's commit changed the file
\* between the read and the write
RacedUpdate(n) ==
    /\ Len(n.turn.ops) = 1
    /\ n.turn.ops[1].name = "update_file"
    /\ Len(n.turn.http) = 3
    /\ n.turn.http[2] = OtherWrite(n.turn.ops[1].args.repo, n.turn.ops[1].args.path, TRUE)
    /\ FileAt(n.pre, n.turn.ops[1].args.repo, n.turn.ops[1].args.path)
          # ToBase64(OtherContent)

\* C15: when another writer changes the file between update_file's read of
\* the hash and its write, the write is refused, update_file returns a
\* Failure, one write was attempted and the file holds the other writer's
\* content.
C15_ConcurrentEditIsNotOverwritten ==
    (TurnDone /\ RacedUpdate(net))
    => /\ IsFailure(net.turn.ops[1].result)
       /\ Cardinality(ServerWrites(net.turn)) = 1
       /\ ~net.turn.http[3].ok
       /\ FileAt(net.turn.R, net.turn.ops[1].args.repo, net.turn.ops[1].args.path)
             = ToBase64(OtherContent)
       /\ FileAt(Remote(repos, files, refs), net.turn.ops[1].args.repo,
                 net.turn.ops[1].args.path) = ToBase64(OtherContent)

C15_Witness ==
    /\ TurnDone
    /\ RacedUpdate(net)
    /\ FileAt(net.pre, "bot/a", "README.md") \notin {NoFile, ToBase64(OtherContent)}
    /\ net.turn.ops[1].args.content = "c1"

\* the hosting service behaving well: no fault, no other writer
Quiet == Svc(0, Null, TRUE)

RECURSIVE Enumerated(_, _)
Enumerated(names, n) ==
    IF n = 0 THEN ""
    ELSE Enumerated(names, n - 1) \o ToString(n) \o ". <strong>" \o names[n]
            \o "</strong><br>"

\* what the response of a listing of the names must be
Listing(names) ==
    "<strong>Your GitHub Repositories:</strong><br><br>" \o
    (IF names = <<>>
     THEN "You don't have any repositories yet.<br><br>Want to create one? Just ask!"
     ELSE Enumerated(names, Len(names)) \o "<br>Total: " \o ToString(Len(names))
             \o (IF Len(names) = 1 THEN " repository" ELSE " repositories"))

\* the turn's only operation is a list_repos that succeeded
OnlyListedRepos(turn) ==
    /\ Len(turn.ops) = 1
    /\ turn.ops[1].name = "list_repos"
    /\ turn.ops[1].result.tag = "repos"

\* C17: a turn whose only operation is a successful list_repos answers with
\* the no-repositories text and no item when the service returned none, and
\* otherwise with one numbered item per repository, in the service's order,
\* followed by their number as the total.
C17_ListingShowsEveryRepository ==
    (TurnDone /\ net.req.ep = "chat" /\ OnlyListedRepos(net.turn))
    => /\ net.turn.ops[1].result.repos = MapNames(ServiceOrder(net.pre.repos))
       /\ net.turn.resp.response = Listing(MapNames(ServiceOrder(net.pre.repos)))

\* the same for the turns that end at the structured-call stage or at the
\* intent stage, which have a template for list_repos
C17_TemplatedListingShowsEveryRepository ==
    (/\ TurnDone
     /\ net.req.ep = "chat"
     /\ OnlyListedRepos(net.turn)
     /\ net.turn.stage \in {"structured", "intent"})
    => /\ net.turn.ops[1].result.repos = MapNames(ServiceOrder(net.pre.repos))
       /\ net.turn.resp.response = Listing(MapNames(ServiceOrder(net.pre.repos)))

\* the turn that served the request the page sent on "yes" to a file token
ForcedTurn ==
    /\ TurnDone
    /\ net.req.src = "confirm"
    /\ net.req.ep = "chat"
    /\ ConfigurationError(env) = Null

\* the turn ran delete_file once, for the pair, without the AI and without a
\* proposal
DeletedOnce(turn, repo, path) ==
    /\ turn.ai = <<>>
    /\ turn.resp.pendingDeletion = Null
    /\ Len(turn.ops) = 1
    /\ turn.ops[1].name = "delete_file"
    /\ turn.ops[1].args.repo = repo
    /\ turn.ops[1].args.path = path
    /\ \A h \in DeleteCalls(turn) : h.repo = repo /\ h.path = path

C18_ForcedDeletionWithoutTripleColon ==
    (ForcedTurn /\ machine.token # FileToken("bot/a", "x:::y")) =>
        \E r \in RepoIds, p \in Paths :
            /\ machine.token = FileToken(r, p)
            /\ DeletedOnce(net.turn, r, p)

\* the calls of a trace, without their results
CallsOf(ops) == [i \in 1..Len(ops) |-> Call(ops[i].name, ops[i].args)]

\* C19: the stages of a /chat turn run in order.  The classifier is called
\* only when the first reply held no structured call, was not JSON with
\* tool_calls and held no inline call; a turn that got structured calls
\* executes those and nothing else, one that got embedded JSON calls
\* executes only calls of the JSON, one that got an inline call executes
\* nothing after it, and none of the three calls the classifier.
C19_StagesRunInOrder ==
    (net.kind = "req" /\ net.req.ep = "chat")
    => \A ai \in AiReplies, svc \in Services :
          LET t == ChatTurn(net.req, ai, svc, Remote(repos, files, refs), env)
          IN  /\ "intent" \in Range(t.ai)
                   => FunctionCalls(ai) = <<>> /\ ai.shape \notin {"json", "inline"}
              /\ (t.ai # <<>> /\ FunctionCalls(ai) # <<>>)
                   => /\ t.stage = "structured"
                      /\ CallsOf(t.ops) = FunctionCalls(ai)
              /\ (t.ai # <<>> /\ ai.shape = "json")
                   => /\ t.stage = "json"
                      /\ Range(CallsOf(t.ops)) \subseteq Range(ai.calls)
              /\ (t.ai # <<>> /\ ai.shape = "inline")
                   => t.stage = "inline" /\ t.ops = <<>>

C19_Witness ==
    /\ TurnDone
    /\ net.turn.stage = "json"
    /\ net.turn.ai = <<"tools">>
    /\ Len(net.turn.ops) = 2

\* C20: a turn whose first AI reply holds an inline call of a registered tool
\* ends with that invocation carried out: proposed when it is a delete_repo,
\* executed with the parsed arguments otherwise, and shown in the response.
C20_InlineCallIsCarriedOut ==
    (TurnDone /\ net.turn.stage = "inline" /\ net.turn.inv.name \in ToolNames)
    => IF net.turn.inv.name = "delete_repo"
       THEN \/ net.turn.resp.pendingDeletion = net.turn.inv.args.repo
            \/ net.turn.resp.response = "Repository not found."
       ELSE /\ CallsOf(net.turn.ops) = <<net.turn.inv>>
            /\ net.turn.resp.toolCalls = net.turn.ops
            /\ net.turn.resp.response \notin {Null, ""}


\* C21: when the first AI reply holds k >= 1 structured calls, in
\* response.functionCalls or as functionCall parts of the candidate, the turn
\* executes all k with the model's names and arguments, and the trace holds
\* exactly those k records in the model's order.
C21_AllStructuredCallsAreExecuted ==
    (net.kind = "req" /\ net.req.ep = "chat")
    => \A ai \in AiReplies, svc \in Services :
          LET t == ChatTurn(net.req, ai, svc, Remote(repos, files, refs), env)
          IN  (t.ai # <<>> /\ ai.shape \in {"functionCalls", "parts"})
                  => /\ CallsOf(t.ops) = ai.calls
                     /\ t.resp.toolCalls = t.ops

\* the same for the calls read from response.functionCalls only
C21_FunctionCallsPropertyIsExecutedWhole ==
    (net.kind = "req" /\ net.req.ep = "chat")
    => \A ai \in AiReplies, svc \in Services :
          LET t == ChatTurn(net.req, ai, svc, Remote(repos, files, refs), env)
          IN  (t.ai # <<>> /\ ai.shape = "functionCalls")
                  => /\ CallsOf(t.ops) = ai.calls
                     /\ t.resp.toolCalls = t.ops


\* C22: a turn whose first AI reply is JSON with a tool_calls array executes
\* exactly the entries whose name is in the Tool Registry, in their order:
\* the trace holds those and no other record, an entry with an unknown name
\* sends the hosting service nothing, raises no error and does not keep the
\* entries after it from running.
C22_OnlyRegisteredJsonCallsRun ==
    (TurnDone /\ net.req.ep = "chat" /\ net.got.shape = "json")
    => /\ net.turn.stage = "json"
       /\ CallsOf(net.turn.ops) =
              SelectSeq(net.got.calls, LAMBDA c : c.name \in ToolNames)
       /\ net.turn.resp.toolCalls = net.turn.ops
       /\ net.turn.resp.error = Null
       /\ (\A i \in DOMAIN net.got.calls : net.got.calls[i].name \notin ToolNames)
             => net.turn.http = <<>>

C22_Witness ==
    /\ TurnDone
    /\ net.got.shape = "json"
    /\ Len(net.got.calls) = 2
    /\ net.got.calls[1].name = "frobnicate"
    /\ CallsOf(net.turn.ops) = <<net.got.calls[2]>>
    /\ net.turn.http # <<>>


\* a turn that asked the classifier
Classifying == TurnDone /\ net.req.ep = "chat" /\ "intent" \in Range(net.turn.ai)

\* the turn went as one of intent none: nothing sent, nothing recorded, and
\* the response is the text of the first AI call
AsIntentNone ==
    /\ net.turn.stage = "none"
    /\ net.turn.ops = <<>>
    /\ net.turn.http = <<>>
    /\ net.turn.resp = RespText(net.said)

\* C23: when the classifier's reply cannot be parsed into the expected JSON
\* object (no text, text that is not JSON, JSON that is not an object), the
\* turn goes as one of intent none: no request to the hosting service, no
\* Execution Record, and the response is the first AI call's text, not an
\* error.
C23_UnparsedIntentIsNone ==
    (Classifying /\ net.got.intent.form \notin {"object", "fenced"})
    => AsIntentNone

\* the same for the replies on which JSON.parse throws or that hold no text
C23_ParseFailureIsNone ==
    (Classifying /\ net.got.intent.form \in {"empty", "prose"})
    => AsIntentNone


\* the operations that work on the files of one repository
FileScoped == {"list_files", "read_file", "update_file", "delete_file"}

\* nothing was executed and nothing was sent
ExecutedNothing == net.turn.ops = <<>> /\ net.turn.http = <<>>

\* the classifier named a file operation (i: the object of its reply): the
\* named repository goes first, the ambient one second, and without either
\* the turn asks
IntentRepoFromContext ==
    LET i == ParseIntent(net.got.intent)
        ambient == net.req.context.currentRepo
    IN  (/\ Classifying
         /\ ~IntentIsNull(net.got.intent)
         /\ i.intent \in {"create_file", "update_file", "delete_file"})
        => /\ (i.file_name # Null /\ i.repo_name # Null)
                => /\ net.turn.inv.name \in FileScoped
                   /\ net.turn.inv.args.repo = CompleteOwner(i.repo_name)
           /\ (i.file_name # Null /\ i.repo_name = Null /\ ambient # Null)
                => /\ net.turn.inv.name \in FileScoped
                   /\ net.turn.inv.args.repo = ambient
           /\ (i.repo_name = Null /\ ambient = Null)
                => IsClarification(net.turn) /\ ExecutedNothing

\* the first AI reply held one structured call of a file operation without
\* its repo argument
StructuredRepoFromContext ==
    LET ambient == net.req.context.currentRepo
    IN  (/\ TurnDone
         /\ net.req.ep = "chat"
         /\ net.got.shape = "functionCalls"
         /\ Len(net.got.calls) = 1
         /\ net.got.calls[1].name \in FileScoped
         /\ net.got.calls[1].args.repo = Null)
        => IF ambient # Null
           THEN Len(net.turn.ops) = 1 /\ net.turn.ops[1].args.repo = ambient
           ELSE ExecutedNothing

\* C24: a file operation resolved without a repository argument runs on the
\* ambient current repository when the request supplies one; a repository
\* named explicitly goes before the ambient one; with neither, the turn asks
\* for the repository and executes nothing.  This holds for the operations
\* the classifier resolves and for the structured calls of the first reply.
C24_MissingRepoIsTheAmbientOne ==
    IntentRepoFromContext /\ StructuredRepoFromContext

\* the same for the operations the classifier resolves only
C24_ClassifiedRepoIsTheAmbientOne == IntentRepoFromContext


\* C25: a delete-file request that names no file, made while the context
\* holds an open file, resolves to delete_file on that file's repository and
\* path, and the turn does not ask which file is meant.
C25_DeleteTargetsTheOpenFile ==
    LET i == ParseIntent(net.got.intent)
        open == net.req.context.currentFile
    IN  (/\ Classifying
         /\ ~IntentIsNull(net.got.intent)
         /\ i.intent = "delete_file"
         /\ i.file_name = Null
         /\ open # NoOpenFile)
        => /\ ~IsClarification(net.turn)
           /\ net.turn.inv.name = "delete_file"
           /\ net.turn.inv.args.repo = open.repo
           /\ net.turn.inv.args.path = open.path

\* the context text that names the open file, or else the current repository
ContextText(context) ==
    IF context.currentFile # NoOpenFile
    THEN "CURRENT CONTEXT: Currently editing: " \o context.currentFile.path
         \o " in " \o context.currentFile.repo
    ELSE "CURRENT CONTEXT: Currently viewing repo: " \o context.currentRepo

\* C27: when the request supplies a context with an open file or a current
\* repository, as a JSON string or as an object, the system prompt of the
\* first AI call holds the context text that names that file or repository.
C27_PromptNamesTheContext ==
    (/\ TurnDone
     /\ net.req.ep = "chat"
     /\ net.asked # Null
     /\ net.req.context.form \in {"string", "object"}
     /\ (net.req.context.currentFile # NoOpenFile
         \/ net.req.context.currentRepo # Null))
    => net.asked = "You are a helpful GitHub AI assistant. "
                   \o ContextText(net.req.context)


\* the repository a classified invocation works on is the classifier's name
\* completed once, and completing it again changes nothing
ClassifiedIdIsCompleted ==
    LET i == ParseIntent(net.got.intent)
    IN  (/\ Classifying
         /\ ~IntentIsNull(net.got.intent)
         /\ net.turn.inv.name \in FileScoped \cup {"delete_repo"})
        => /\ i.repo_name # Null
                => net.turn.inv.args.repo = CompleteOwner(i.repo_name)
           /\ CompleteOwner(net.turn.inv.args.repo) = net.turn.inv.args.repo
           /\ net.turn.resp.pendingDeletion # Null
                => net.turn.resp.pendingDeletion = net.turn.inv.args.repo

\* the repository the pending-name follow-up looks up and proposes is the
\* name of the message completed once
PendingIdIsCompleted ==
    (TurnDone /\ net.turn.stage = "pendingDelete")
    => /\ net.turn.http[1].repo = CompleteOwner(Trim(net.req.message))
       /\ net.turn.resp.pendingDeletion # Null
            => net.turn.resp.pendingDeletion = net.turn.http[1].repo

\* C26: every repository identifier that intent classification or the
\* pending-name follow-up forms for an invocation or a Confirmation Token is
\* of the form owner/name: a bare name gets the operator's username in front,
\* a name that carries an owner already is left as it is, and completing
\* twice equals completing once.
C26_RepositoryIdsAreCompletedOnce ==
    ClassifiedIdIsCompleted /\ PendingIdIsCompleted

\* the same for the identifiers intent classification forms
C26_ClassifiedIdsAreCompletedOnce == ClassifiedIdIsCompleted


\* C28: a turn whose single operation is a successful update_file answers
\* "created" when the read before the write found no file (no hash), and
\* "updated" when it found one.
C28_CreatedOrUpdatedWording ==
    (/\ TurnDone
     /\ net.req.ep = "chat"
     /\ Len(net.turn.ops) = 1
     /\ net.turn.ops[1].name = "update_file"
     /\ ~IsFailure(net.turn.ops[1].result))
    => net.turn.resp.response =
          IF net.turn.http[1].ok THEN "File updated successfully."
          ELSE "File created successfully."


\* a finished turn that executed one operation, the named one
SingleOp(name) ==
    TurnDone /\ Len(net.turn.ops) = 1 /\ net.turn.ops[1].name = name

\* the file an operation's arguments name, as it was when the turn began
FileBefore(args) == FileAt(net.pre, args.repo, args.path)

OwnRequests(h) == SelectSeq(h, LAMBDA rq : rq.u # "contents, by another writer")

\* every request but those at the exempt positions was answered 2xx, or was
\* the last one of a failed operation; and no request was sent twice
FirstFailureEnds(h, result, exempt) ==
    /\ \A j \in DOMAIN h :
          (~h[j].ok /\ j \notin exempt) => (j = Len(h) /\ IsFailure(result))
    /\ \A i, j \in DOMAIN h : i # j => <<h[i].m, h[i].u>> # <<h[j].m, h[j].u>>

\* a finished turn that executed one operation
AnySingleOp == TurnDone /\ Len(net.turn.ops) = 1

\* C30: within one operation of the gateway, the first response that is not a
\* success ends the operation with a Failure: no further request is sent and
\* none is repeated, for every tool, each step of create_pr and the first
\* read of update_file included.
C30_FirstFailureEndsTheOperation ==
    AnySingleOp
    => FirstFailureEnds(OwnRequests(net.turn.http), net.turn.ops[1].result, {})

\* the same, except that update_file goes on to its write when its first
\* read is not answered 2xx
C30_FirstFailureEndsButUpdateReads ==
    AnySingleOp
    => FirstFailureEnds(OwnRequests(net.turn.http), net.turn.ops[1].result,
                        IF net.turn.ops[1].name = "update_file" THEN {1} ELSE {})

\* create_pr made its branch and stopped at the file it could not read
C30_Witness ==
    /\ SingleOp("create_pr")
    /\ Len(net.turn.http) = 3
    /\ net.turn.http[2].ok
    /\ ~net.turn.http[3].ok
    /\ IsFailure(net.turn.ops[1].result)

-----------------------------------------------------------------------------
(* The page: the token, the editor and the history *)

\* the page took a message that, trimmed, is not empty while it held a token
TokenTookMessage(m) ==
    pendingDeletion # Null /\ HandleChatSubmit(m) /\ Trim(m) # ""

\* C31: with a token held, the next non-empty message goes to the
\* confirmation path only: the history gets no entry, the token is used up,
\* and either the deletion request of the token is sent or nothing is sent and
\* the token is cancelled; the turn that serves the deletion request makes no
\* AI call.
C31_TokenTakesTheNextMessage ==
    /\ [][\A m \in UserMessages :
             TokenTookMessage(m)
             => /\ chatHistory' = chatHistory
                /\ pendingDeletion' = Null
                /\ \/ /\ net' = InFlight(ConfirmRequest(pendingDeletion,
                                                        pendingDeletionType))
                      /\ machine' = Machine("Confirmed", pendingDeletion)
                   \/ /\ net' = net
                      /\ machine' = Machine("Cancelled", pendingDeletion)]_vars
    /\ []((TurnDone /\ net.req.src = "confirm")
           => net.turn.ai = <<>> /\ net.turn.stage \in {"delete", "force", "config"})

C31_Witness ==
    /\ machine.state \in {"Confirmed", "Cancelled"}
    /\ machine.token = "bot/a"
    /\ pendingDeletion = Null
    /\ chatHistory = <<"user">>

\* a deletion request that was not at hand before: the page has just sent it
SendsDeletion ==
    /\ net # net'
    /\ net'.kind = "req"
    /\ net'.req.src = "confirm"
    /\ net' \notin pending

\* "yes" with a token held sends the deletion request of the proposal that
\* was received last
YesSendsTheLatest ==
    \A m \in UserMessages :
        (/\ pendingDeletion # Null
         /\ HandleChatSubmit(m)
         /\ ToLowerCase(Trim(m)) = "yes")
        => /\ machine.state = "Proposed"
           /\ net' = InFlight(DeleteReq("confirm", machine.token))
           /\ pendingDeletion' = Null

\* a deletion request is sent for the proposal received last only
DeletionIsOfTheLatest ==
    SendsDeletion
    => /\ machine.state = "Proposed"
       /\ net'.req.repo = machine.token
       /\ machine' = Machine("Confirmed", machine.token)

\* a proposal that arrives while a token is held replaces it; nothing is sent
LaterProposalReplaces ==
    (pendingDeletion # Null /\ HandleChatResponse /\ net.turn.resp.pendingDeletion # Null)
    => /\ pendingDeletion' = net.turn.resp.pendingDeletion
       /\ machine' = Machine("Proposed", pendingDeletion')
       /\ net' = Idle
       /\ UNCHANGED <<repos, files, refs>>

\* C32: machine holds the proposal the page received last.  Whatever the
\* order in which the proposals arrive: "yes" sends the deletion request of
\* the proposal received last; a deletion request is sent for that proposal
\* only; a proposal that arrives while a token is held replaces it and sends
\* nothing; and the turn that serves a deletion request deletes nothing but
\* the repository the request names.
C32_YesDeletesTheLatestProposal ==
    /\ [][YesSendsTheLatest /\ DeletionIsOfTheLatest /\ LaterProposalReplaces]_vars
    /\ []((TurnDone /\ net.req.src = "confirm")
           => \A h \in DeleteCalls(net.turn) : h.repo = net.req.repo)

\* a proposal for another repository arrives while a token is held: the two
\* requests were in transit together
C32_Witness ==
    /\ pendingDeletion = "bot/a"
    /\ TurnDone
    /\ net.req.src = "form"
    /\ net.turn.resp.pendingDeletion = "bot/b"

\* C33: whenever the page sets currentFile to a file, the content and the
\* hash are those a fetch of /file returned for the repository and the path
\* that currentFile names.
C33_OpenFileIsFromItsRepository ==
    [][(currentFile' # currentFile /\ currentFile' # NothingOpen)
       => /\ net.kind = "turn"
          /\ net.req.ep = "file"
          /\ net.turn.resp.error = Null
          /\ currentFile' = Loaded(net.req.repo, net.req.path,
                                   net.turn.resp.content, net.turn.resp.sha)]_vars

\* C34: the history the page sends never holds two user entries in a row.
C34_HistoryAlternates ==
    \A i \in 1..(Len(chatHistory) - 1) :
        ~(chatHistory[i] = "user" /\ chatHistory[i + 1] = "user")

\* the pendingAction values that match an awaitingInput
PendingActions == {"repo_name_for_create", "repo_name_for_delete"}

\* C35: the server's answer to the page's message carried awaitingInput and
\* the page took it (the history is that one message and that one answer);
\* the request of the page's next message carries a pendingAction.
C35_NextRequestCarriesPendingAction ==
    [][\A m \in {"a", " b ", "hello"} :
          (chatHistory = <<"user", "model">> /\ HandleChatSubmit(m))
          => net'.req.pendingAction \in PendingActions]_vars

\* C35, second part: a turn with pendingAction repo_name_for_delete sends no
\* delete request to the hosting service.
C35_PendingDeleteTurnDeletesNothing ==
    (TurnDone /\ net.req.ep = "chat" /\ net.req.pendingAction = "repo_name_for_delete")
    => DeleteCalls(net.turn) = {}

\* C36: a create_pr that returned a Failure leaves the hosting service as it
\* was when the turn began: no branch more, no pull request more, no file
\* changed.
C36_FailedCreatePrLeavesNothing ==
    (SingleOp("create_pr") /\ IsFailure(net.turn.ops[1].result))
    => /\ net.turn.R = net.pre
       /\ refs = net.pre.refs
       /\ files = net.pre.files

\* the arguments the operation of a direct endpoint requires and the request
\* lacks; /commit supplies the message itself
Lacking(req) ==
    CASE req.ep = "files" -> {f \in {"repo"} : req[f] = Null}
      [] req.ep = "file" -> {f \in {"repo", "path"} : req[f] = Null}
      [] req.ep = "commit" -> {f \in {"repo", "path", "content"} : req[f] = Null}
      [] req.ep = "delete" -> {f \in {"repo"} : req[f] = Null}
      [] OTHER -> {}

\* C37: a direct endpoint answers a request that lacks a required argument
\* with an error, runs no operation and sends nothing to the hosting service.
C37_DirectEndpointsRefuseMissingArguments ==
    (TurnDone /\ Lacking(net.req) # {})
    => /\ net.turn.resp.error # Null
       /\ net.turn.ops = <<>>
       /\ net.turn.http = <<>>

\* C37 for /files, /file and /delete, which check every argument they need
C37_ReadAndDeleteEndpointsRefuse ==
    (TurnDone /\ Lacking(net.req) # {} /\ net.req.ep # "commit")
    => /\ net.turn.resp.error # Null
       /\ net.turn.ops = <<>>
       /\ net.turn.http = <<>>

\* the page, the exchanges and the hosting service
Everything == <<repos, files, refs, currentRepo, currentFile, chatHistory,
                pendingDeletion, pendingDeletionType, net, pending>>

\* C38: with a token held, submitting a message that is empty once trimmed
\* changes nothing: no request is sent, nothing is cancelled or confirmed,
\* and the token and its kind stay for the next message.
C38_EmptyMessageKeepsTheToken ==
    \A m \in UserMessages :
        (pendingDeletion # Null /\ Trim(m) = "")
        => ~ENABLED (HandleChatSubmit(m) /\ Everything' # Everything)

\* the page holds a token and the form is free to take the empty message
C38_Witness ==
    /\ pendingDeletion = "bot/a"
    /\ pendingDeletionType = "repo"
    /\ machine = Machine("Proposed", "bot/a")
    /\ net = Idle
    /\ ENABLED HandleChatSubmit("   ")

====
